---- MODULE Spec2Model ----
(***************************************************************************)
(* A model of command/agent/consul/syncer.go: the Syncer that reconciles   *)
(* Nomad's desired services and checks with the local Consul agent.        *)
(*                                                                         *)
(* Strings that the code cuts or compares by prefix (service IDs, domains, *)
(* keys) are sequences of tokens, so fmt.Sprintf is concatenation and      *)
(* strings.HasPrefix is a real prefix test.  Go maps are functions whose   *)
(* DOMAIN is the key set.  Every exported method is one action; an agent   *)
(* call that may fail takes its outcome from the action's inputs.          *)
(***************************************************************************)
EXTENDS Integers, Sequences, FiniteSets, TLC

VARIABLES
    servicesGroups,     \* map[ServiceDomain]map[ServiceKey]*AgentServiceRegistration
    checkGroups,        \* map[ServiceDomain]map[ServiceKey][]*AgentCheckRegistration
    trackedServices,    \* map[consulServiceID]*AgentServiceRegistration
    trackedChecks,      \* map[consulCheckID]*AgentCheckRegistration
    checkRunners,       \* map[consulCheckID]*CheckRunner (the runner's state)
    periodicCallbacks,  \* map[string]types.PeriodicCallback
    consulAvailable,    \* bool
    shutdown,           \* bool
    notifySyncCh,       \* chan struct{}
    notifyShutdownCh,   \* chan struct{}
    shutdownCh,         \* the caller's chan struct{}: "open" or "closed"
    run,                \* the Run goroutine: "idle", "running" or "returned"
    timer,              \* Run's time.Timer: "none", "armed" or "stopped"
    agentServices,      \* the Consul agent: service ID -> AgentService
    agentChecks,        \* the Consul agent: check ID -> AgentCheck
    nSet,               \* SetServices calls made so far
    burst,              \* SyncNow calls since Run last took its notify branch
    notified,           \* times Run took its notify branch within the burst
    everDesired,        \* the check IDs that have been in checkGroups
    outage,             \* the agent: "none" (reachable so far), "down", "over"
    downTicks,          \* timer ticks of Run while the agent was down
    failureLogs,        \* "error in syncing" lines Run logged since it went down
    recoveryLogs,       \* "syncs succesful" lines Run logged since it went down
    groupsLock,         \* sync.RWMutex
    registryLock,       \* sync.RWMutex
    periodicLock,       \* sync.RWMutex
    shutdownLock,       \* sync.Mutex
    pc,                 \* where each goroutine of a concurrent caller stands
    frame,              \* the local variables of those goroutines
    last                \* the last call made and what it returned

vars == <<servicesGroups, checkGroups, trackedServices, trackedChecks,
          checkRunners, periodicCallbacks, consulAvailable, shutdown,
          notifySyncCh, notifyShutdownCh, shutdownCh, run, timer,
          agentServices, agentChecks, nSet, burst, notified, everDesired,
          outage, downTicks, failureLogs, recoveryLogs,
          groupsLock, registryLock, periodicLock, shutdownLock, pc, frame,
          last>>

registryVars == <<trackedServices, trackedChecks, checkRunners>>
groupVars == <<servicesGroups, checkGroups>>
agentVars == <<agentServices, agentChecks>>
loopVars == <<consulAvailable, run, timer>>
chanVars == <<notifySyncCh, notifyShutdownCh, shutdownCh>>
handlerVars == <<periodicCallbacks>>
countVars == <<nSet, burst, notified, everDesired>>
outageVars == <<outage, downTicks, failureLogs, recoveryLogs>>
lockVars == <<groupsLock, registryLock, periodicLock, shutdownLock, pc, frame>>

(***************************************************************************)
(* Bounds of the model.                                                    *)
(***************************************************************************)
\* SetServices calls in one behaviour
MaxSetServices == 2
\* back-to-back SyncNow calls counted in one burst
MaxBurst == 2

(***************************************************************************)
(* Strings.                                                                *)
(***************************************************************************)
HasPrefix(s, prefix) ==
    /\ Len(prefix) <= Len(s)
    /\ SubSeq(s, 1, Len(prefix)) = prefix

nomadServicePrefix == <<"_nomad">>
ClientDomain == <<"client">>
ServerDomain == <<"server">>

\* the domains producers write
Domains == {ClientDomain, ServerDomain}
\* a domain whose name begins with "client", and one no producer writes
Client2Domain == <<"client", "2">>
ExecutorDomain == <<"executor">>

KeyA == <<"a">>
KeyB == <<"b">>
Keys == {KeyA, KeyB}

EmptyMap == [x \in {} |-> x]

Restrict(f, S) == [x \in S |-> f[x]]
Without(f, S) == [x \in DOMAIN f \ S |-> f[x]]
Range(f) == {f[x] : x \in DOMAIN f}
SeqRange(s) == {s[i] : i \in 1..Len(s)}

(***************************************************************************)
(* The producers' records (structs.Service, structs.ServiceCheck).         *)
(***************************************************************************)
ScriptCheck == [Name |-> "alive", Type |-> "script"]
HTTPCheck == [Name |-> "ping", Type |-> "http"]
BadCheck == [Name |-> "bad", Type |-> "grpc"]

Svc(label, checks) ==
    [Name |-> "web", Tags |-> <<"t">>, PortLabel |-> label, Checks |-> checks]

\* the maps given to SetServices
ServiceInputs ==
    { EmptyMap,
      (KeyA :> Svc("http", <<>>)),
      (KeyA :> Svc("rpc", <<>>)),
      (KeyA :> Svc("http", <<ScriptCheck>>)),
      (KeyA :> Svc("http", <<ScriptCheck, HTTPCheck>>)),
      (KeyB :> Svc("http", <<ScriptCheck, BadCheck>>)),
      (KeyA :> Svc("http", <<>>)) @@ (KeyB :> Svc("http", <<>>)) }

\* the maps the server's producer gives, and the maps given for a domain
ServerServiceInputs ==
    { EmptyMap,
      (KeyA :> Svc("http", <<>>)),
      (KeyA :> Svc("http", <<ScriptCheck>>)) }

InputsOf(domain) ==
    IF domain = ServerDomain THEN ServerServiceInputs ELSE ServiceInputs

\* SetDelegatedChecks: the check types the syncer runs itself
delegateChecks == {"script"}

\* SetAddrFinder: the resolver of port labels
addrFinder(portLabel) ==
    IF portLabel = "http" THEN [host |-> "10.0.0.1", port |-> 80]
    ELSE IF portLabel = "rpc" THEN [host |-> "10.0.0.1", port |-> 4647]
    ELSE [host |-> "", port |-> 0]

(***************************************************************************)
(* Identifiers and construction of registrations.                          *)
(***************************************************************************)
\* generateConsulServiceID without the hyphen before the key
generateConsulServiceIDNoSep(domain, key) ==
    nomadServicePrefix \o <<"-">> \o domain \o key

generateConsulServiceID(domain, key) ==
    nomadServicePrefix \o <<"-">> \o domain \o <<"-">> \o key

createService(service, domain, key) ==
    LET addr == addrFinder(service.PortLabel)
    IN  [ID |-> generateConsulServiceID(domain, key),
         Name |-> service.Name,
         Tags |-> service.Tags,
         Port |-> addr.port,
         Address |-> addr.host,
         EnableTagOverride |-> FALSE]

\* ServiceCheck.Hash: a content hash of the check's fields and the service ID
Hash(check, serviceID) ==
    [name |-> check.Name, type |-> check.Type, service |-> serviceID]

ValidCheckTypes == {"http", "tcp", "script"}

createCheckRegErr(check) == check.Type \notin ValidCheckTypes

createCheckReg(check, service) ==
    [ID |-> Hash(check, service.ID),
     Name |-> check.Name,
     Notes |-> "",
     ServiceID |-> service.ID,
     Probe |-> IF check.Type = "script" THEN "ttl" ELSE check.Type]

(***************************************************************************)
(* Channels.  A Go channel is nil until it is made; a select never picks a *)
(* send to or a receive from a nil channel.                                *)
(***************************************************************************)
NilChan == [nil |-> TRUE, cap |-> 0, len |-> 0]

CanSend(ch) == ~ch.nil /\ ch.len < ch.cap
CanRecv(ch) == ~ch.nil /\ ch.len > 0

\* select { case ch <- struct{}{}: default: }
TrySend(ch) == IF CanSend(ch) THEN [ch EXCEPT !.len = @ + 1] ELSE ch
Recv(ch) == [ch EXCEPT !.len = @ - 1]

\* SyncNow with a send that queues behind a pending notification
SyncNowSendQueued(ch) == [ch EXCEPT !.len = @ + 1]

\* SyncNow's effect on notifySyncCh
SyncNowSend(ch) == TrySend(ch)

\* signalShutdown's effect on notifyShutdownCh
signalShutdown(ch) == TrySend(ch)

(***************************************************************************)
(* SetServices.                                                            *)
(***************************************************************************)
\* the loop over service.Checks: acc is [runners, regs, err]
RECURSIVE CheckLoop(_, _, _, _)
CheckLoop(checks, i, serviceReg, acc) ==
    IF i > Len(checks) THEN acc
    ELSE
      LET chk == checks[i]
          chkReg == createCheckReg(chk, serviceReg)
      IN  IF createCheckRegErr(chk)
          THEN CheckLoop(checks, i + 1, serviceReg, [acc EXCEPT !.err = TRUE])
          ELSE IF chk.Type \in delegateChecks
          THEN IF chkReg.ID \in DOMAIN acc.runners
               THEN \* the runner exists: continue, the check is not appended
                    CheckLoop(checks, i + 1, serviceReg, acc)
               ELSE CheckLoop(checks, i + 1, serviceReg,
                       [acc EXCEPT !.runners = @ @@ (chkReg.ID :> "created"),
                                   !.regs = Append(@, chkReg)])
          ELSE CheckLoop(checks, i + 1, serviceReg,
                  [acc EXCEPT !.regs = Append(@, chkReg)])

\* the loop over services: acc is [runners, services, checks, err]
RECURSIVE ServiceLoop(_, _, _, _)
ServiceLoop(keys, services, domain, acc) ==
    IF keys = {} THEN acc
    ELSE
      LET key == CHOOSE k \in keys : TRUE
          serviceReg == createService(services[key], domain, key)
          c == CheckLoop(services[key].Checks, 1, serviceReg,
                         [runners |-> acc.runners, regs |-> <<>>, err |-> FALSE])
      IN  ServiceLoop(keys \ {key}, services, domain,
            [runners |-> c.runners,
             services |-> acc.services @@ (key :> serviceReg),
             checks |-> IF c.regs = <<>> THEN acc.checks
                        ELSE acc.checks @@ (key :> c.regs),
             err |-> acc.err \/ c.err])

\* the write of registered into groups[domain], under groupsLock
StoreGroup(groups, domain, registered) ==
    IF DOMAIN registered = {} THEN groups
    ELSE LET old == IF domain \in DOMAIN groups THEN groups[domain] ELSE EmptyMap
         IN  (domain :> (registered @@ old)) @@ groups

\* the agent calls of one operation: the IDs given to ServiceRegister,
\* ServiceDeregister, CheckRegister (and those checks' ServiceID) and
\* CheckDeregister
NoCalls == [sreg |-> {}, sdereg |-> {}, creg |-> {}, cregsvc |-> {}, cdereg |-> {}]

\* what goes wrong in a SyncServices call: the handlers that return an error,
\* the queries that fail, and the IDs whose agent call fails
NoInputs ==
    [failing |-> {}, svcQueryFails |-> FALSE, chkQueryFails |-> FALSE,
     svcFails |-> {}, chkFails |-> {}]

\* the record of a call: what was called, with what, and what it returned
Last(op, domain, services, err, calls) ==
    [op |-> op, domain |-> domain, services |-> services, err |-> err,
     calls |-> calls, name |-> "", ret |-> FALSE, n |-> 0,
     inputs |-> NoInputs, args |-> <<>>]

Bump(n) == IF n < MaxBurst THEN n + 1 ELSE n

SetServices(domain, services) ==
    /\ nSet < MaxSetServices
    /\ nSet' = nSet + 1
    /\ LET r == ServiceLoop(DOMAIN services, services, domain,
                   [runners |-> checkRunners, services |-> EmptyMap,
                    checks |-> EmptyMap, err |-> FALSE])
       IN  /\ checkRunners' = r.runners
           /\ IF r.err
              THEN UNCHANGED <<servicesGroups, checkGroups, notifySyncCh, burst,
                               everDesired>>
              ELSE /\ servicesGroups' = StoreGroup(servicesGroups, domain, r.services)
                   /\ checkGroups' = StoreGroup(checkGroups, domain, r.checks)
                   /\ everDesired' = everDesired \cup
                        UNION {{c.ID : c \in SeqRange(r.checks[k])} : k \in DOMAIN r.checks}
                   /\ notifySyncCh' = SyncNowSend(notifySyncCh)
                   /\ burst' = Bump(burst)
           /\ last' = Last("SetServices", domain, services, r.err, NoCalls)
    /\ UNCHANGED <<trackedServices, trackedChecks, agentVars, loopVars,
                   handlerVars, shutdown, notifyShutdownCh, shutdownCh, notified,
                   outageVars, lockVars>>

SyncNow ==
    /\ burst < MaxBurst
    /\ notifySyncCh' = SyncNowSend(notifySyncCh)
    /\ burst' = burst + 1
    /\ notified' = 0
    /\ last' = Last("SyncNow", <<>>, EmptyMap, FALSE, NoCalls)
    /\ UNCHANGED <<groupVars, registryVars, agentVars, loopVars, handlerVars,
                   shutdown, notifyShutdownCh, shutdownCh, nSet, everDesired,
                   outageVars, lockVars>>

(***************************************************************************)
(* The Consul agent, as the syncer uses it: two maps and four calls.  A    *)
(* call that fails leaves the agent as it was.                             *)
(***************************************************************************)
AgentServiceRegister(services, reg) ==
    (reg.ID :> [ID |-> reg.ID, Service |-> reg.Name, Tags |-> reg.Tags,
                Port |-> reg.Port, Address |-> reg.Address,
                EnableTagOverride |-> reg.EnableTagOverride]) @@ services

AgentServiceDeregister(services, id) == Without(services, {id})

AgentCheckRegister(checks, reg) ==
    (reg.ID :> [CheckID |-> reg.ID, Name |-> reg.Name, Notes |-> reg.Notes,
                ServiceID |-> reg.ServiceID]) @@ checks

AgentCheckDeregister(checks, id) == Without(checks, {id})

\* CheckRunner.Start and CheckRunner.Stop, on the runner's state
RunnerStart(state) == "started"
RunnerStop(state) == IF state = "started" THEN "stopped" ELSE state

(***************************************************************************)
(* Flattening, filtering and the four-way diff.                            *)
(***************************************************************************)
flattenedServices ==
    UNION {Range(servicesGroups[d]) : d \in DOMAIN servicesGroups}

flattenedChecks ==
    UNION {UNION {SeqRange(checkGroups[d][k]) : k \in DOMAIN checkGroups[d]} :
           d \in DOMAIN checkGroups}

\* fmt.Sprintf("%s-%s", nomadServicePrefix, domain)
FilterPrefix(domain) == nomadServicePrefix \o <<"-">> \o domain

\* filterConsulServices that keeps the desired services only
filterConsulServicesDesired(consulServices) ==
    Restrict(consulServices,
        {id \in DOMAIN consulServices : id \in {r.ID : r \in flattenedServices}})

filterConsulServices(consulServices) ==
    Restrict(consulServices,
        {id \in DOMAIN consulServices :
            \E domain \in DOMAIN servicesGroups :
                HasPrefix(consulServices[id].ID, FilterPrefix(domain))})

filterConsulChecks(consulChecks) ==
    Restrict(consulChecks,
        {id \in DOMAIN consulChecks :
            \E domain \in DOMAIN checkGroups :
                HasPrefix(consulChecks[id].ServiceID, FilterPrefix(domain))})

compareConsulService(localService, consulService) ==
    IF \/ consulService.ID # localService.ID
       \/ consulService.Service # localService.Name
       \/ consulService.Port # localService.Port
       \/ consulService.Address # localService.Address
       \/ consulService.EnableTagOverride # localService.EnableTagOverride
    THEN FALSE
    ELSE \* serviceTags: every local tag starts as 'l', a Consul tag found
         \* in it turns it to 'b', a Consul tag not found ends the compare
         /\ \A i \in 1..Len(consulService.Tags) :
                consulService.Tags[i] \in SeqRange(localService.Tags)
         /\ \A i \in 1..Len(localService.Tags) :
                localService.Tags[i] \in SeqRange(consulService.Tags)

\* compareConsulCheck with the agent's Notes compared to the local Name
compareConsulCheckNotes(localCheck, consulCheck) ==
    ~ \/ consulCheck.CheckID # localCheck.ID
      \/ consulCheck.Name # localCheck.Name
      \/ consulCheck.Notes # localCheck.Name
      \/ consulCheck.ServiceID # localCheck.ServiceID

compareConsulCheck(localCheck, consulCheck) ==
    ~ \/ consulCheck.CheckID # localCheck.ID
      \/ consulCheck.Name # localCheck.Name
      \/ consulCheck.Notes # localCheck.Notes
      \/ consulCheck.ServiceID # localCheck.ServiceID

\* the registration synthesized for a service only the agent holds
StaleServiceReg(consulService) ==
    [ID |-> consulService.ID, Name |-> consulService.Service,
     Tags |-> consulService.Tags, Port |-> consulService.Port,
     Address |-> consulService.Address, EnableTagOverride |-> FALSE]

StaleCheckReg(consulCheck) ==
    [ID |-> consulCheck.CheckID, Name |-> consulCheck.Name,
     Notes |-> consulCheck.Notes, ServiceID |-> consulCheck.ServiceID,
     Probe |-> ""]

\* localServices: the flattened registrations by ID
LocalByID(regs) == [id \in {r.ID : r \in regs} |-> CHOOSE r \in regs : r.ID = id]

\* calcServicesDiff that reports no agent-only service as stale
calcServicesDiffNoStale(consulServices) ==
    LET localServices == LocalByID(flattenedServices)
        both == DOMAIN localServices \cap DOMAIN consulServices
    IN  [missing |-> {localServices[id] : id \in DOMAIN localServices \ DOMAIN consulServices},
         equal   |-> {localServices[id] : id \in
                        {i \in both : compareConsulService(localServices[i], consulServices[i])}},
         changed |-> {localServices[id] : id \in
                        {i \in both : ~compareConsulService(localServices[i], consulServices[i])}},
         stale   |-> {}]

calcServicesDiff(consulServices) ==
    LET localServices == LocalByID(flattenedServices)
        both == DOMAIN localServices \cap DOMAIN consulServices
    IN  [missing |-> {localServices[id] : id \in DOMAIN localServices \ DOMAIN consulServices},
         equal   |-> {localServices[id] : id \in
                        {i \in both : compareConsulService(localServices[i], consulServices[i])}},
         changed |-> {localServices[id] : id \in
                        {i \in both : ~compareConsulService(localServices[i], consulServices[i])}},
         stale   |-> {StaleServiceReg(consulServices[id]) :
                        id \in DOMAIN consulServices \ DOMAIN localServices}]

\* calcChecksDiff that reports every check both sides hold as equal
calcChecksDiffNoCompare(consulChecks) ==
    LET localChecks == LocalByID(flattenedChecks)
        both == DOMAIN localChecks \cap DOMAIN consulChecks
    IN  [missing |-> {localChecks[id] : id \in DOMAIN localChecks \ DOMAIN consulChecks},
         equal   |-> {localChecks[id] : id \in both},
         changed |-> {},
         stale   |-> {StaleCheckReg(consulChecks[id]) :
                        id \in DOMAIN consulChecks \ DOMAIN localChecks}]

calcChecksDiff(consulChecks) ==
    LET localChecks == LocalByID(flattenedChecks)
        both == DOMAIN localChecks \cap DOMAIN consulChecks
    IN  [missing |-> {localChecks[id] : id \in DOMAIN localChecks \ DOMAIN consulChecks},
         equal   |-> {localChecks[id] : id \in
                        {i \in both : compareConsulCheck(localChecks[i], consulChecks[i])}},
         changed |-> {localChecks[id] : id \in
                        {i \in both : ~compareConsulCheck(localChecks[i], consulChecks[i])}},
         stale   |-> {StaleCheckReg(consulChecks[id]) :
                        id \in DOMAIN consulChecks \ DOMAIN localChecks}]

(***************************************************************************)
(* The sync driver.  fails is the set of IDs whose agent call fails (of     *)
(* service IDs in syncServices, of check IDs in syncChecks); a phase's     *)
(* value is the state it leaves and the error it returns.                  *)
(***************************************************************************)
\* registerCheck: start the runner if there is one, then CheckRegister
registerCheck(st, chkReg, fails) ==
    [st EXCEPT
       !.runners = IF chkReg.ID \in DOMAIN @
                   THEN [@ EXCEPT ![chkReg.ID] = RunnerStart(@)] ELSE @,
       !.agent = IF chkReg.ID \in fails THEN @ ELSE AgentCheckRegister(@, chkReg),
       !.err = @ \/ chkReg.ID \in fails,
       !.creg = @ \cup {chkReg.ID},
       !.cregsvc = @ \cup {chkReg.ServiceID}]

\* deregisterCheck: CheckDeregister, and on success stop and drop the runner
deregisterCheck(st, id, fails) ==
    IF id \in fails
    THEN [st EXCEPT !.err = TRUE, !.cdereg = @ \cup {id}]
    ELSE [st EXCEPT
            !.agent = AgentCheckDeregister(@, id),
            !.runners = Without(@, {id}),
            !.cdereg = @ \cup {id}]

\* the loop over missingServices
RECURSIVE RegisterMissingServices(_, _, _)
RegisterMissingServices(st, regs, fails) ==
    IF regs = {} THEN st
    ELSE LET service == CHOOSE r \in regs : TRUE
         IN  RegisterMissingServices(
               [st EXCEPT
                  !.agent = IF service.ID \in fails THEN @
                            ELSE AgentServiceRegister(@, service),
                  !.err = @ \/ service.ID \in fails,
                  !.sreg = @ \cup {service.ID},
                  !.tracked = (service.ID :> service) @@ @],
               regs \ {service}, fails)

\* the loop over changedServices
RECURSIVE RegisterChangedServices(_, _, _)
RegisterChangedServices(st, regs, fails) ==
    IF regs = {} THEN st
    ELSE LET service == CHOOSE r \in regs : TRUE
         IN  RegisterChangedServices(
               [st EXCEPT
                  !.agent = IF service.ID \in fails THEN @
                            ELSE AgentServiceRegister(@, service),
                  !.err = @ \/ service.ID \in fails,
                  !.sreg = @ \cup {service.ID}],
               regs \ {service}, fails)

\* syncServices that returns at the first ServiceDeregister that fails
RECURSIVE DeregisterStaleServicesAbort(_, _, _)
DeregisterStaleServicesAbort(st, regs, fails) ==
    IF regs = {} THEN st
    ELSE LET service == CHOOSE r \in regs : TRUE
         IN  IF service.ID \in fails
             THEN [st EXCEPT !.err = TRUE, !.sdereg = @ \cup {service.ID}]
             ELSE DeregisterStaleServicesAbort(
                    [st EXCEPT
                       !.agent = AgentServiceDeregister(@, service.ID),
                       !.sdereg = @ \cup {service.ID},
                       !.tracked = Without(@, {service.ID})],
                    regs \ {service}, fails)

\* the loop over removedServices
RECURSIVE DeregisterStaleServices(_, _, _)
DeregisterStaleServices(st, regs, fails) ==
    IF regs = {} THEN st
    ELSE LET service == CHOOSE r \in regs : TRUE
         IN  DeregisterStaleServices(
               [st EXCEPT
                  !.agent = IF service.ID \in fails THEN @
                            ELSE AgentServiceDeregister(@, service.ID),
                  !.err = @ \/ service.ID \in fails,
                  !.sdereg = @ \cup {service.ID},
                  !.tracked = Without(@, {service.ID})],
               regs \ {service}, fails)

syncServices(queryFails, fails) ==
    LET st0 == [agent |-> agentServices, tracked |-> trackedServices,
                err |-> FALSE, sreg |-> {}, sdereg |-> {}]
    IN  IF queryFails THEN [st0 EXCEPT !.err = TRUE]
        ELSE LET diff == calcServicesDiff(filterConsulServices(agentServices))
                 st1 == RegisterMissingServices(st0, diff.missing, fails)
                 st2 == RegisterChangedServices(st1, diff.changed, fails)
             IN  DeregisterStaleServices(st2, diff.stale, fails)

\* the loop over missingChecks
RECURSIVE RegisterMissingChecks(_, _, _)
RegisterMissingChecks(st, regs, fails) ==
    IF regs = {} THEN st
    ELSE LET check == CHOOSE r \in regs : TRUE
             st1 == registerCheck(st, check, fails)
         IN  RegisterMissingChecks(
               [st1 EXCEPT !.tracked = (check.ID :> check) @@ @],
               regs \ {check}, fails)

\* the loop over changedChecks
RECURSIVE RegisterChangedChecks(_, _, _)
RegisterChangedChecks(st, regs, fails) ==
    IF regs = {} THEN st
    ELSE LET check == CHOOSE r \in regs : TRUE
         IN  RegisterChangedChecks(registerCheck(st, check, fails),
                                   regs \ {check}, fails)

\* the loop over staleChecks
RECURSIVE DeregisterStaleChecks(_, _, _)
DeregisterStaleChecks(st, regs, fails) ==
    IF regs = {} THEN st
    ELSE LET check == CHOOSE r \in regs : TRUE
             st1 == deregisterCheck(st, check.ID, fails)
         IN  DeregisterStaleChecks(
               [st1 EXCEPT !.tracked = Without(@, {check.ID})],
               regs \ {check}, fails)

syncChecks(queryFails, fails) ==
    LET st0 == [agent |-> agentChecks, tracked |-> trackedChecks,
                runners |-> checkRunners,
                err |-> FALSE, creg |-> {}, cregsvc |-> {}, cdereg |-> {}]
    IN  IF queryFails THEN [st0 EXCEPT !.err = TRUE]
        ELSE LET diff == calcChecksDiff(filterConsulChecks(agentChecks))
                 st1 == RegisterMissingChecks(st0, diff.missing, fails)
                 st2 == RegisterChangedChecks(st1, diff.changed, fails)
             IN  DeregisterStaleChecks(st2, diff.stale, fails)

\* RunHandlers: every handler is called; failing names the ones that return
\* an error
RunHandlers(failing) == failing # {}

\* SyncServices: the first phase that returns an error ends the call
SyncResult(failing, svcQueryFails, chkQueryFails, svcFails, chkFails) ==
    LET s == syncServices(svcQueryFails, svcFails)
        c == syncChecks(chkQueryFails, chkFails)
        inputs == [failing |-> failing, svcQueryFails |-> svcQueryFails,
                   chkQueryFails |-> chkQueryFails, svcFails |-> svcFails,
                   chkFails |-> chkFails]
        none == [agentServices |-> agentServices, trackedServices |-> trackedServices,
                 agentChecks |-> agentChecks, trackedChecks |-> trackedChecks,
                 checkRunners |-> checkRunners, err |-> TRUE, calls |-> NoCalls,
                 inputs |-> inputs]
    IN  IF RunHandlers(failing) THEN none
        ELSE IF s.err
        THEN [none EXCEPT !.agentServices = s.agent, !.trackedServices = s.tracked,
                          !.calls = [NoCalls EXCEPT !.sreg = s.sreg, !.sdereg = s.sdereg]]
        ELSE [agentServices |-> s.agent, trackedServices |-> s.tracked,
              agentChecks |-> c.agent, trackedChecks |-> c.tracked,
              checkRunners |-> c.runners, err |-> c.err, inputs |-> inputs,
              calls |-> [sreg |-> s.sreg, sdereg |-> s.sdereg,
                         creg |-> c.creg, cregsvc |-> c.cregsvc,
                         cdereg |-> c.cdereg]]

\* the IDs the agent calls of a sync made now are about
CallIDs ==
    LET diff == calcServicesDiff(filterConsulServices(agentServices))
    IN  {r.ID : r \in diff.missing \cup diff.changed \cup diff.stale}

CheckCallIDs ==
    LET diff == calcChecksDiff(filterConsulChecks(agentChecks))
    IN  {r.ID : r \in diff.missing \cup diff.changed \cup diff.stale}

\* what can go wrong in a sync made now: handlers that fail, or a failing
\* query or failing calls in the first phase that is reached and fails
SyncOutcomes ==
    LET Out(failing, sq, cq, sf, cf) ==
            [failing |-> failing, svcQueryFails |-> sq, chkQueryFails |-> cq,
             svcFails |-> sf, chkFails |-> cf]
    IN  {Out(f, FALSE, FALSE, {}, {}) : f \in SUBSET DOMAIN periodicCallbacks \ {{}}}
        \cup {Out({}, TRUE, FALSE, {}, {})}
        \cup {Out({}, FALSE, FALSE, sf, {}) : sf \in SUBSET CallIDs \ {{}}}
        \cup {Out({}, FALSE, TRUE, {}, {})}
        \cup {Out({}, FALSE, FALSE, {}, cf) : cf \in SUBSET CheckCallIDs}

ApplySync(r) ==
    /\ agentServices' = r.agentServices
    /\ trackedServices' = r.trackedServices
    /\ agentChecks' = r.agentChecks
    /\ trackedChecks' = r.trackedChecks
    /\ checkRunners' = r.checkRunners
    /\ last' = [Last("SyncServices", <<>>, EmptyMap, r.err, r.calls) EXCEPT
                   !.inputs = r.inputs]

\* a producer's call of SyncServices
SyncServices(o) ==
    /\ ApplySync(SyncResult(o.failing, o.svcQueryFails, o.chkQueryFails,
                            o.svcFails, o.chkFails))
    /\ UNCHANGED <<groupVars, loopVars, chanVars, handlerVars, shutdown, countVars, outageVars, lockVars>>

(***************************************************************************)
(* Shutdown.                                                               *)
(***************************************************************************)
RECURSIVE DeregisterTracked(_, _, _)
DeregisterTracked(agent, ids, fails) ==
    IF ids = {} THEN agent
    ELSE LET serviceID == CHOOSE i \in ids : TRUE
         IN  DeregisterTracked(
               IF serviceID \in fails THEN agent
               ELSE AgentServiceDeregister(agent, serviceID),
               ids \ {serviceID}, fails)

StopAll(runners) == [id \in DOMAIN runners |-> RunnerStop(runners[id])]

ShutdownBody(fails) ==
    /\ shutdown' = TRUE
    /\ notifyShutdownCh' = signalShutdown(notifyShutdownCh)
    /\ checkRunners' = StopAll(checkRunners)
    /\ agentServices' = DeregisterTracked(agentServices, DOMAIN trackedServices, fails)
    /\ last' = Last("Shutdown", <<>>, EmptyMap,
                    fails \cap DOMAIN trackedServices # {},
                    [NoCalls EXCEPT !.sdereg = DOMAIN trackedServices])
    /\ UNCHANGED <<groupVars, trackedServices, trackedChecks, agentChecks,
                   handlerVars, consulAvailable, notifySyncCh, shutdownCh, countVars, outageVars, lockVars>>

\* a producer's call of Shutdown
Shutdown(fails) ==
    /\ ShutdownBody(fails)
    /\ UNCHANGED <<run, timer>>

\* the owner of shutdownCh closes it
CloseShutdownCh ==
    /\ shutdownCh = "open"
    /\ shutdownCh' = "closed"
    /\ UNCHANGED <<groupVars, registryVars, agentVars, loopVars, handlerVars,
                   shutdown, notifySyncCh, notifyShutdownCh, countVars, outageVars, lockVars, last>>

(***************************************************************************)
(* ReapUnmatched.                                                          *)
(***************************************************************************)
\* fmt.Sprintf("%s-%s-", nomadServicePrefix, domain)
ReapPrefix(domain) == nomadServicePrefix \o <<"-">> \o domain \o <<"-">>

\* the match loop with the prefix of the sync filters, "_nomad-{domain}"
ReapMatchNoHyphen(domains, serviceID) ==
    \E domain \in domains : HasPrefix(serviceID, FilterPrefix(domain))

\* the loop over domains: the service is of one of them
ReapMatch(domains, serviceID) ==
    \E domain \in domains : HasPrefix(serviceID, ReapPrefix(domain))

\* the loop over servicesInConsul: st is [agent, err, sdereg]
RECURSIVE ReapLoop(_, _, _, _)
ReapLoop(st, ids, domains, fails) ==
    IF ids = {} THEN st
    ELSE LET serviceID == CHOOSE i \in ids : TRUE
             rest == ids \ {serviceID}
         IN  IF ~HasPrefix(serviceID, nomadServicePrefix)
             THEN ReapLoop(st, rest, domains, fails)
             ELSE IF ReapMatch(domains, serviceID)
             THEN ReapLoop(st, rest, domains, fails)
             ELSE ReapLoop(
                    [st EXCEPT
                       !.agent = IF serviceID \in fails THEN @
                                 ELSE AgentServiceDeregister(@, serviceID),
                       !.err = @ \/ serviceID \in fails,
                       !.sdereg = @ \cup {serviceID}],
                    rest, domains, fails)

\* a producer's call of ReapUnmatched: the query fails, or the
\* deregistrations of fails do
ReapUnmatched(domains, queryFails, fails) ==
    LET st0 == [agent |-> agentServices, err |-> FALSE, sdereg |-> {}]
        st == IF queryFails THEN [st0 EXCEPT !.err = TRUE]
              ELSE ReapLoop(st0, DOMAIN agentServices, domains, fails)
    IN  /\ agentServices' = st.agent
        /\ last' = [Last("ReapUnmatched", <<>>, EmptyMap, st.err,
                         [NoCalls EXCEPT !.sdereg = st.sdereg]) EXCEPT
                       !.args = <<domains>>,
                       !.inputs = [NoInputs EXCEPT !.svcQueryFails = queryFails,
                                                   !.svcFails = fails]]
        /\ UNCHANGED <<groupVars, registryVars, agentChecks, loopVars, chanVars,
                       handlerVars, shutdown, countVars, outageVars, lockVars>>

(***************************************************************************)
(* Periodic handlers.                                                      *)
(***************************************************************************)
HandlerNames == {"x", "y"}
Callbacks == {"f", "g"}

HandlerLast(op, name, ret, n) ==
    [Last(op, <<>>, EmptyMap, FALSE, NoCalls) EXCEPT
       !.name = name, !.ret = ret, !.n = n]

\* AddPeriodicHandler without the found test
AddHandlerOverwrite(callbacks, name, fn) == (name :> fn) @@ callbacks

AddHandler(callbacks, name, fn) ==
    IF name \in DOMAIN callbacks THEN callbacks ELSE (name :> fn) @@ callbacks

AddPeriodicHandler(name, fn) ==
    /\ periodicCallbacks' = AddHandler(periodicCallbacks, name, fn)
    /\ last' = HandlerLast("AddPeriodicHandler", name,
                           name \notin DOMAIN periodicCallbacks, 0)
    /\ UNCHANGED <<groupVars, registryVars, agentVars, loopVars, chanVars,
                   shutdown, countVars, outageVars, lockVars>>

RemovePeriodicHandler(name) ==
    /\ periodicCallbacks' = Without(periodicCallbacks, {name})
    /\ last' = HandlerLast("RemovePeriodicHandler", name, TRUE, 0)
    /\ UNCHANGED <<groupVars, registryVars, agentVars, loopVars, chanVars,
                   shutdown, countVars, outageVars, lockVars>>

NumHandlers ==
    /\ last' = HandlerLast("NumHandlers", "", TRUE,
                           Cardinality(DOMAIN periodicCallbacks))
    /\ UNCHANGED <<groupVars, registryVars, agentVars, loopVars, chanVars,
                   handlerVars, shutdown, countVars, outageVars, lockVars>>

(***************************************************************************)
(* Run: the periodic loop.  The timer is abstracted to "may fire whenever  *)
(* it is armed"; a select takes any one of its ready cases.                *)
(***************************************************************************)
\* go c.Run(): sync := time.NewTimer(0)
RunStart ==
    /\ run = "idle"
    /\ run' = "running"
    /\ timer' = "armed"
    /\ UNCHANGED <<groupVars, registryVars, agentVars, handlerVars, chanVars,
                   consulAvailable, shutdown, countVars, outageVars, lockVars, last>>

\* case <-sync.C
RunTimer(o) ==
    LET r == SyncResult(o.failing, o.svcQueryFails, o.chkQueryFails,
                        o.svcFails, o.chkFails)
    IN  /\ timer = "armed"
        /\ timer' = "armed"
        /\ ApplySync(r)
        /\ failureLogs' = IF outage # "none" /\ r.err /\ consulAvailable
                          THEN failureLogs + 1 ELSE failureLogs
        /\ recoveryLogs' = IF outage # "none" /\ ~r.err /\ ~consulAvailable
                           THEN recoveryLogs + 1 ELSE recoveryLogs
        /\ consulAvailable' = ~r.err
        /\ downTicks' = IF outage = "down" THEN downTicks + 1 ELSE downTicks
        /\ UNCHANGED <<groupVars, chanVars, handlerVars, shutdown, run, countVars,
                       outage, lockVars>>

\* case <-c.notifySyncCh
RunNotifySync ==
    /\ CanRecv(notifySyncCh)
    /\ notifySyncCh' = Recv(notifySyncCh)
    /\ timer' = "armed"
    /\ burst' = 0
    /\ notified' = notified + 1
    /\ UNCHANGED <<groupVars, registryVars, agentVars, handlerVars, consulAvailable,
                   shutdown, notifyShutdownCh, shutdownCh, run, nSet, everDesired,
                   outageVars, lockVars,
                   last>>

\* case <-c.shutdownCh
RunShutdownCh(fails) ==
    /\ shutdownCh = "closed"
    /\ ShutdownBody(fails)
    /\ UNCHANGED <<run, timer>>

\* case <-c.notifyShutdownCh
RunNotifyShutdown ==
    /\ CanRecv(notifyShutdownCh)
    /\ notifyShutdownCh' = Recv(notifyShutdownCh)
    /\ timer' = "stopped"
    /\ run' = "returned"
    /\ UNCHANGED <<groupVars, registryVars, agentVars, handlerVars, consulAvailable,
                   shutdown, notifySyncCh, shutdownCh, countVars, outageVars, lockVars, last>>

\* one pass of the for { select { ... } }
Run ==
    /\ run = "running"
    /\ \/ \E o \in SyncOutcomes : RunTimer(o)
       \/ RunNotifySync
       \/ \E fails \in SUBSET DOMAIN trackedServices : RunShutdownCh(fails)
       \/ RunNotifyShutdown

(***************************************************************************)
(* The agent's inventory when the syncer is constructed: what an earlier   *)
(* incarnation, another producer or an operator left there.                *)
(***************************************************************************)
AgentSvc(id, port, override) ==
    [ID |-> id, Service |-> "web", Tags |-> <<"t">>, Port |-> port,
     Address |-> "10.0.0.1", EnableTagOverride |-> override]

AgentChk(check, serviceID, notes) ==
    [CheckID |-> Hash(check, serviceID), Name |-> check.Name, Notes |-> notes,
     ServiceID |-> serviceID]

ClientA == generateConsulServiceID(ClientDomain, KeyA)
ClientGhost == generateConsulServiceID(ClientDomain, <<"ghost">>)
Client2X == generateConsulServiceID(Client2Domain, <<"x">>)
ExecutorX == generateConsulServiceID(ExecutorDomain, <<"x">>)
Web == <<"web">>
Nomadic == <<"_nomad", "ic">>
OldCheck == [Name |-> "old", Type |-> "tcp"]

ByID(recs) == [id \in {r.ID : r \in recs} |-> CHOOSE r \in recs : r.ID = id]
ByCheckID(recs) ==
    [id \in {r.CheckID : r \in recs} |-> CHOOSE r \in recs : r.CheckID = id]

InitialInventories ==
    { [services |-> EmptyMap, checks |-> EmptyMap],
      \* a differing record, an orphan of a known domain, other domains' and
      \* foreign records
      [services |-> ByID({AgentSvc(ClientA, 4647, FALSE), AgentSvc(ClientGhost, 80, FALSE),
                          AgentSvc(Client2X, 80, FALSE), AgentSvc(ExecutorX, 80, FALSE),
                          AgentSvc(Web, 80, TRUE), AgentSvc(Nomadic, 80, FALSE)}),
       checks |-> EmptyMap],
      \* what an earlier incarnation with the same services registered
      [services |-> ByID({AgentSvc(ClientA, 80, FALSE)}),
       checks |-> ByCheckID({AgentChk(ScriptCheck, ClientA, ""),
                             AgentChk(HTTPCheck, ClientA, "edited"),
                             AgentChk(OldCheck, ClientA, "")})] }

(***************************************************************************)
(* The goroutines of LockSpec, their locals when they are in no call, and  *)
(* a lock nobody holds.                                                    *)
(***************************************************************************)
\* the goroutines: one producer calling SetServices, one caller of
\* SyncServices, one of Shutdown, and one check runner
Tasks == {"set", "sync", "shut", "check"}

\* the local variables of the four goroutines, outside their calls
NoFrame ==
    [set |-> [domain |-> <<>>, services |-> EmptyMap, keys |-> {}, key |-> <<>>,
              i |-> 0, registeredServices |-> EmptyMap,
              registeredChecks |-> EmptyMap, err |-> FALSE],
     sync |-> [handlers |-> EmptyMap, consul |-> EmptyMap,
               missing |-> {}, changed |-> {}, stale |-> {},
               cur |-> [ID |-> <<>>], kind |-> "",
               err |-> FALSE, calls |-> NoCalls, inputs |-> NoInputs],
     shut |-> [ids |-> {}, cur |-> <<>>, err |-> FALSE, sdereg |-> {}],
     check |-> <<>>]

\* NewSyncer's fields, and the agent as the syncer finds it; of a
\* sync.RWMutex, the writer that holds it, the readers that hold it and the
\* writers that wait for it
InitWith(inventories) ==
    /\ servicesGroups = EmptyMap
    /\ checkGroups = EmptyMap
    /\ trackedServices = EmptyMap
    /\ trackedChecks = EmptyMap
    /\ checkRunners = EmptyMap
    /\ periodicCallbacks = EmptyMap
    /\ consulAvailable = TRUE
    /\ shutdown = FALSE
    /\ notifySyncCh = NilChan
    /\ notifyShutdownCh = NilChan
    /\ shutdownCh = "open"
    /\ run = "idle"
    /\ timer = "none"
    /\ \E inv \in inventories :
          /\ agentServices = inv.services
          /\ agentChecks = inv.checks
    /\ nSet = 0
    /\ burst = 0
    /\ notified = 0
    /\ everDesired = {}
    /\ outage = "none"
    /\ downTicks = 0
    /\ failureLogs = 0
    /\ recoveryLogs = 0
    /\ groupsLock = [w |-> "", r |-> {}, q |-> {}]
    /\ registryLock = [w |-> "", r |-> {}, q |-> {}]
    /\ periodicLock = [w |-> "", r |-> {}, q |-> {}]
    /\ shutdownLock = [w |-> "", r |-> {}, q |-> {}]
    /\ pc = [t \in Tasks |-> "idle"]
    /\ frame = NoFrame

InitState == InitWith(InitialInventories)

Init ==
    /\ InitState
    /\ last = Last("NewSyncer", <<>>, EmptyMap, FALSE, NoCalls)

(***************************************************************************)
(* Spec: producers write the desired state and call SyncServices; every    *)
(* agent call may fail.                                                    *)
(***************************************************************************)
Next ==
    \/ \E domain \in Domains : \E services \in InputsOf(domain) :
          SetServices(domain, services)
    \/ \E o \in SyncOutcomes : SyncServices(o)

Spec == Init /\ [][Next]_vars

(***************************************************************************)
(* LoopSpec: the Run goroutine beside producers that write one domain,     *)
(* call SyncNow and Shutdown, and the owner of shutdownCh.                 *)
(***************************************************************************)
LoopServiceInputs ==
    { (KeyA :> Svc("http", <<ScriptCheck>>)),
      (KeyB :> Svc("http", <<ScriptCheck, BadCheck>>)) }

LoopNext ==
    \/ RunStart
    \/ Run
    \/ SyncNow
    \/ \E services \in LoopServiceInputs : SetServices(ClientDomain, services)
    \/ \E fails \in SUBSET DOMAIN trackedServices : Shutdown(fails)
    \/ CloseShutdownCh

LoopSpec == Init /\ [][LoopNext]_vars

\* the scheduler keeps running the Run goroutine, and a select does not
\* starve a case that stays ready
FairLoopSpec ==
    /\ LoopSpec
    /\ WF_vars(Run)
    /\ SF_vars(run = "running" /\ RunNotifySync)
    /\ SF_vars(run = "running" /\ RunNotifyShutdown)

(***************************************************************************)
(* HandlerSpec: producers add and remove periodic handlers, write one      *)
(* domain and call SyncServices.                                           *)
(***************************************************************************)
HandlerNext ==
    \/ \E name \in HandlerNames, fn \in Callbacks : AddPeriodicHandler(name, fn)
    \/ \E name \in HandlerNames : RemovePeriodicHandler(name)
    \/ NumHandlers
    \/ \E services \in LoopServiceInputs : SetServices(ClientDomain, services)
    \/ \E o \in SyncOutcomes : SyncServices(o)

HandlerSpec == Init /\ [][HandlerNext]_vars

(***************************************************************************)
(* AvailSpec: the Run goroutine and the runners of the delegated checks    *)
(* beside one producer, with an agent that is reachable, then unreachable  *)
(* for some ticks (every query and TTL update fails), then reachable       *)
(* again.                                                                  *)
(***************************************************************************)
MaxDownTicks == 3

\* a runner calls runCheck while it is started: Check.Run, then UpdateTTL,
\* whose error flips consulAvailable
runCheck(id, updateFails) ==
    /\ id \in DOMAIN checkRunners
    /\ checkRunners[id] = "started"
    /\ consulAvailable' = IF updateFails THEN ~consulAvailable ELSE consulAvailable
    /\ UNCHANGED <<groupVars, registryVars, agentVars, handlerVars, chanVars,
                   run, timer, shutdown, countVars, outageVars, lockVars, last>>

AgentGoesDown ==
    /\ outage = "none"
    /\ outage' = "down"
    /\ UNCHANGED <<groupVars, registryVars, agentVars, handlerVars, chanVars,
                   loopVars, shutdown, countVars, downTicks, failureLogs,
                   recoveryLogs, lockVars, last>>

AgentRecovers ==
    /\ outage = "down"
    /\ downTicks >= 1
    /\ outage' = "over"
    /\ UNCHANGED <<groupVars, registryVars, agentVars, handlerVars, chanVars,
                   loopVars, shutdown, countVars, downTicks, failureLogs,
                   recoveryLogs, lockVars, last>>

\* Run's timer branch: the sync fails at its first query while the agent is
\* down, and no call fails otherwise
Tick ==
    /\ run = "running"
    /\ IF outage = "down"
       THEN /\ downTicks < MaxDownTicks
            /\ RunTimer([NoInputs EXCEPT !.svcQueryFails = TRUE])
       ELSE RunTimer(NoInputs)

AvailNext ==
    \/ RunStart
    \/ Tick
    \/ \E id \in DOMAIN checkRunners : runCheck(id, outage = "down")
    \/ \E services \in LoopServiceInputs : SetServices(ClientDomain, services)
    \/ AgentGoesDown
    \/ AgentRecovers

AvailSpec == Init /\ [][AvailNext]_vars

(***************************************************************************)
(* ReapSpec: producers write one domain, call SyncServices and call        *)
(* ReapUnmatched with any list of domains.                                 *)
(***************************************************************************)
\* the domain lists given to ReapUnmatched
ReapDomainLists ==
    { {}, {ClientDomain}, {ServerDomain}, {ClientDomain, ExecutorDomain} }

\* the services ReapUnmatched would call ServiceDeregister for
ReapCallIDs(domains) ==
    {id \in DOMAIN agentServices :
        HasPrefix(id, nomadServicePrefix) /\ ~ReapMatch(domains, id)}

ReapNext ==
    \/ \E domains \in ReapDomainLists :
          \/ ReapUnmatched(domains, TRUE, {})
          \/ \E fails \in {{}} \cup {{id} : id \in ReapCallIDs(domains)} :
                ReapUnmatched(domains, FALSE, fails)
    \/ \E services \in LoopServiceInputs : SetServices(ClientDomain, services)
    \/ \E o \in SyncOutcomes : SyncServices(o)

ReapSpec == Init /\ [][ReapNext]_vars

(***************************************************************************)
(* CompareSpec: compareConsulService applied to a registration and an     *)
(* agent record that differ in their tag lists and in at most one field.   *)
(***************************************************************************)
MaxTags == 3

TagLists == UNION {[1..n -> {"t", "u"}] : n \in 0..MaxTags}

LocalServices ==
    {[createService(Svc("http", <<>>), ClientDomain, KeyA) EXCEPT !.Tags = tags] :
        tags \in TagLists}

\* the agent's record of a registration, as ServiceRegister stores it, and
\* the records that differ from it in one field
ConsulServices ==
    LET Stored(reg) == AgentServiceRegister(EmptyMap, reg)[reg.ID]
    IN  UNION {{Stored(reg),
                [Stored(reg) EXCEPT !.ID = ClientGhost],
                [Stored(reg) EXCEPT !.Service = "db"],
                [Stored(reg) EXCEPT !.Port = 4647],
                [Stored(reg) EXCEPT !.Address = "10.0.0.2"],
                [Stored(reg) EXCEPT !.EnableTagOverride = TRUE]} :
               reg \in LocalServices}

\* a registration and an agent record that the diff is to compare
CompareInit ==
    /\ InitState
    /\ \E localService \in LocalServices, consulService \in ConsulServices :
          last = [Last("NewSyncer", <<>>, EmptyMap, FALSE, NoCalls) EXCEPT
                    !.args = <<localService, consulService>>]

\* the diff compares the registration with the agent's record
CompareServices ==
    /\ last.op = "NewSyncer"
    /\ last' = [last EXCEPT
                   !.op = "compareConsulService",
                   !.ret = compareConsulService(last.args[1], last.args[2])]
    /\ UNCHANGED <<groupVars, registryVars, agentVars, loopVars, chanVars,
                   handlerVars, shutdown, countVars, outageVars, lockVars>>

CompareNext == CompareServices

CompareSpec == CompareInit /\ [][CompareNext]_vars

(***************************************************************************)
(* LockSpec: the syncer's methods as the goroutines that call them run     *)
(* them, one step for every lock operation and every agent call.  A        *)
(* goroutine whose pc names an agent call has that request in flight; its  *)
(* step is the response.  Statements between two such points touch only    *)
(* the goroutine's locals, or the fields the held lock is taken for, and   *)
(* belong to the step that follows them.                                   *)
(***************************************************************************)
\* every variable but the locks, pc and frame
stateVars == <<groupVars, registryVars, agentVars, loopVars, chanVars,
               handlerVars, shutdown, countVars, outageVars, last>>

LockOf(name) ==
    CASE name = "groups" -> groupsLock
      [] name = "registry" -> registryLock
      [] name = "periodic" -> periodicLock
      [] name = "shutdown" -> shutdownLock

SetLock(name, l) ==
    /\ groupsLock' = IF name = "groups" THEN l ELSE groupsLock
    /\ registryLock' = IF name = "registry" THEN l ELSE registryLock
    /\ periodicLock' = IF name = "periodic" THEN l ELSE periodicLock
    /\ shutdownLock' = IF name = "shutdown" THEN l ELSE shutdownLock

Goto(t, label) == pc' = [pc EXCEPT ![t] = label]

\* t calls RLock and goes on to label; RLock returns when no writer holds the
\* lock and none waits for it
RLock(t, name, label) ==
    /\ LockOf(name).w = "" /\ LockOf(name).q = {}
    /\ SetLock(name, [LockOf(name) EXCEPT !.r = @ \cup {t}])
    /\ Goto(t, label)

\* t calls Lock: it takes the lock and goes on to label when nobody holds
\* it, or starts to wait
Lock(t, name, label) ==
    LET l == LockOf(name)
    IN  IF l.w = "" /\ l.r = {}
        THEN /\ SetLock(name, [l EXCEPT !.w = t, !.q = @ \ {t}])
             /\ Goto(t, label)
        ELSE /\ t \notin l.q
             /\ SetLock(name, [l EXCEPT !.q = @ \cup {t}])
             /\ UNCHANGED pc

\* t calls RUnlock or Unlock
Unlock(t, name) ==
    SetLock(name, [LockOf(name) EXCEPT !.w = IF @ = t THEN "" ELSE @,
                                       !.r = @ \ {t}])

\* the locks t holds
Holds(t) ==
    {name \in {"groups", "registry", "periodic", "shutdown"} :
        LockOf(name).w = t \/ t \in LockOf(name).r}

\* SetServices calls of the producer's goroutine
MaxLockCalls == 1

\* the outcomes of an agent call: the calls whose error changes what the
\* caller does next may fail
CallFails(label) ==
    IF label \in {"Agent.Services:429", "Agent.Checks:419",
                  "Agent.CheckDeregister:805", "Agent.UpdateTTL:946"}
    THEN BOOLEAN
    ELSE {FALSE}

\* the Go runtime's "fatal error: concurrent map iteration and map write"
Fatal ==
    /\ pc' = [t \in Tasks |-> "fatal"]
    /\ UNCHANGED <<stateVars, groupsLock, registryLock, periodicLock,
                   shutdownLock, frame>>

(***************************************************************************)
(* The goroutine that calls SetServices.                                   *)
(***************************************************************************)
\* where SetServices goes on: to the next check of the service (a check
\* createCheckReg rejects is skipped), to the next service, or past the loops
RECURSIVE SetAdvance(_)
SetAdvance(f) ==
    IF f.key \in DOMAIN f.services /\ f.i <= Len(f.services[f.key].Checks)
    THEN IF createCheckRegErr(f.services[f.key].Checks[f.i])
         THEN SetAdvance([f EXCEPT !.err = TRUE, !.i = @ + 1])
         ELSE [label |-> "SetServices:284", f |-> f]
    ELSE IF f.keys # {}
    THEN LET key == CHOOSE k \in f.keys : TRUE
         IN  [label |-> "createService:774",
              f |-> [f EXCEPT !.key = key, !.keys = @ \ {key}, !.i = 1]]
    ELSE IF f.err THEN [label |-> "idle", f |-> f]
    ELSE [label |-> "SetServices:315", f |-> f]

\* go on, or return mErr.ErrorOrNil() at 311-313
SetContinue(f) ==
    LET n == SetAdvance(f)
    IN  /\ Goto("set", n.label)
        /\ IF n.label = "idle"
           THEN /\ frame' = [frame EXCEPT !.set = NoFrame.set]
                /\ last' = Last("SetServices", f.domain, f.services, TRUE, NoCalls)
           ELSE /\ frame' = [frame EXCEPT !.set = n.f]
                /\ UNCHANGED last

\* registeredChecks[serviceKey] = append(registeredChecks[serviceKey], chkReg)
AppendCheck(f, chkReg) ==
    [f EXCEPT !.registeredChecks =
                  (f.key :> Append(IF f.key \in DOMAIN @ THEN @[f.key] ELSE <<>>,
                                   chkReg)) @@ @,
              !.i = @ + 1]

\* the check registration the loop body is at
CurrentCheckReg(f) ==
    createCheckReg(f.services[f.key].Checks[f.i], f.registeredServices[f.key])

SetServicesCall(domain, services) ==
    /\ pc.set = "idle"
    /\ nSet < MaxLockCalls
    /\ nSet' = nSet + 1
    /\ SetContinue([NoFrame.set EXCEPT !.domain = domain, !.services = services,
                                      !.keys = DOMAIN services])
    /\ UNCHANGED <<groupVars, registryVars, agentVars, loopVars, chanVars,
                   handlerVars, shutdown, burst, notified, everDesired,
                   outageVars, groupsLock, registryLock,
                   periodicLock, shutdownLock>>

\* createService (772-791)
createServiceSteps ==
    \/ /\ pc.set = "createService:774"
       /\ RLock("set", "registry", "createService:777")
       /\ UNCHANGED <<stateVars, frame>>
    \* build the registration; the deferred RUnlock
    \/ /\ pc.set = "createService:777"
       /\ Unlock("set", "registry")
       /\ LET f == frame.set
          IN  SetContinue([f EXCEPT !.registeredServices =
                              (f.key :> createService(f.services[f.key], f.domain, f.key)) @@ @])
       /\ UNCHANGED <<groupVars, registryVars, agentVars, loopVars, chanVars,
                      handlerVars, shutdown, countVars, outageVars>>

\* SetServices (261-335), from its first lock operation on
SetServicesSteps ==
    \/ /\ pc.set = "SetServices:284"
       /\ RLock("set", "registry", "SetServices:285")
       /\ UNCHANGED <<stateVars, frame>>
    \* read delegateChecks and checkRunners, RUnlock at 287 or 304
    \/ /\ pc.set = "SetServices:285"
       /\ Unlock("set", "registry")
       /\ LET f == frame.set
              chkReg == CurrentCheckReg(f)
          IN  IF f.services[f.key].Checks[f.i].Type \in delegateChecks
              THEN IF chkReg.ID \in DOMAIN checkRunners
                   THEN SetContinue([f EXCEPT !.i = @ + 1])
                   ELSE /\ Goto("set", "SetServices:299")
                        /\ UNCHANGED <<frame, last>>
              ELSE SetContinue(AppendCheck(f, chkReg))
       /\ UNCHANGED <<groupVars, registryVars, agentVars, loopVars, chanVars,
                      handlerVars, shutdown, countVars, outageVars>>
    \/ /\ pc.set = "SetServices:299"
       /\ Lock("set", "registry", "SetServices:301")
       /\ UNCHANGED <<stateVars, frame>>
    \* c.checkRunners[...] = cr, Unlock, and the append at 307
    \/ /\ pc.set = "SetServices:301"
       /\ Unlock("set", "registry")
       /\ LET f == frame.set
              chkReg == CurrentCheckReg(f)
          IN  /\ checkRunners' = (chkReg.ID :> "created") @@ checkRunners
              /\ SetContinue(AppendCheck(f, chkReg))
       /\ UNCHANGED <<groupVars, trackedServices, trackedChecks, agentVars, loopVars,
                      chanVars, handlerVars, shutdown, countVars, outageVars>>
    \/ /\ pc.set = "SetServices:315"
       /\ Lock("set", "groups", "SetServices:316")
       /\ UNCHANGED <<stateVars, frame>>
    \* the two store loops, Unlock, SyncNow and return nil
    \/ /\ pc.set = "SetServices:316"
       /\ Unlock("set", "groups")
       /\ LET f == frame.set
          IN  /\ servicesGroups' = StoreGroup(servicesGroups, f.domain, f.registeredServices)
              /\ checkGroups' = StoreGroup(checkGroups, f.domain, f.registeredChecks)
              /\ everDesired' = everDesired \cup
                   UNION {{c.ID : c \in SeqRange(f.registeredChecks[k])} :
                          k \in DOMAIN f.registeredChecks}
              /\ last' = Last("SetServices", f.domain, f.services, FALSE, NoCalls)
       /\ notifySyncCh' = SyncNowSend(notifySyncCh)
       /\ burst' = Bump(burst)
       /\ Goto("set", "idle")
       /\ frame' = [frame EXCEPT !.set = NoFrame.set]
       /\ UNCHANGED <<registryVars, agentVars, loopVars, handlerVars, shutdown,
                      notifyShutdownCh, shutdownCh, nSet, notified, outageVars>>

\* SetServices is inserting a domain into a groups map
InsertsDomain(groups, registered) ==
    /\ pc.set = "SetServices:316"
    /\ DOMAIN registered # {}
    /\ frame.set.domain \notin DOMAIN groups

(***************************************************************************)
(* The goroutine that calls SyncServices.                                  *)
(***************************************************************************)
\* SyncServices returns
SyncReturn(f, err) ==
    /\ Goto("sync", "idle")
    /\ frame' = [frame EXCEPT !.sync = NoFrame.sync]
    /\ last' = [Last("SyncServices", <<>>, EmptyMap, err, f.calls) EXCEPT
                   !.inputs = f.inputs]

\* where syncServices goes on: the three loops of 700-721, then syncChecks
SvcContinue(f) ==
    LET n == IF f.missing # {}
             THEN LET service == CHOOSE r \in f.missing : TRUE
                  IN  [label |-> "Agent.ServiceRegister:701",
                       f |-> [f EXCEPT !.cur = service, !.missing = @ \ {service}]]
             ELSE IF f.changed # {}
             THEN LET service == CHOOSE r \in f.changed : TRUE
                  IN  [label |-> "Agent.ServiceRegister:710",
                       f |-> [f EXCEPT !.cur = service, !.changed = @ \ {service}]]
             ELSE IF f.stale # {}
             THEN LET service == CHOOSE r \in f.stale : TRUE
                  IN  [label |-> "Agent.ServiceDeregister:796",
                       f |-> [f EXCEPT !.cur = service, !.stale = @ \ {service}]]
             ELSE IF f.err THEN [label |-> "idle", f |-> f]
             ELSE [label |-> "Agent.Checks:419", f |-> [f EXCEPT !.cur = [ID |-> <<>>]]]
    IN  IF n.label = "idle" THEN SyncReturn(f, TRUE)
        ELSE /\ Goto("sync", n.label)
             /\ frame' = [frame EXCEPT !.sync = n.f]
             /\ UNCHANGED last

\* where syncChecks goes on: the three loops of 446-474, then the return
ChkContinue(f) ==
    LET n == IF f.missing # {}
             THEN LET check == CHOOSE r \in f.missing : TRUE
                  IN  [label |-> "registerCheck:727",
                       f |-> [f EXCEPT !.cur = check, !.kind = "missing",
                                       !.missing = @ \ {check}]]
             ELSE IF f.changed # {}
             THEN LET check == CHOOSE r \in f.changed : TRUE
                  IN  [label |-> "registerCheck:727",
                       f |-> [f EXCEPT !.cur = check, !.kind = "changed",
                                       !.changed = @ \ {check}]]
             ELSE IF f.stale # {}
             THEN LET check == CHOOSE r \in f.stale : TRUE
                  IN  [label |-> "deregisterCheck:801",
                       f |-> [f EXCEPT !.cur = check, !.kind = "stale",
                                       !.stale = @ \ {check}]]
             ELSE [label |-> "idle", f |-> f]
    IN  IF n.label = "idle" THEN SyncReturn(f, f.err)
        ELSE /\ Goto("sync", n.label)
             /\ frame' = [frame EXCEPT !.sync = n.f]
             /\ UNCHANGED last

\* RunHandlers (854-870)
RunHandlersSteps ==
    \/ /\ pc.sync = "RunHandlers:855"
       /\ RLock("sync", "periodic", "RunHandlers:856")
       /\ UNCHANGED <<stateVars, frame>>
    \* copy the handlers, RUnlock
    \/ /\ pc.sync = "RunHandlers:856"
       /\ Unlock("sync", "periodic")
       /\ frame' = [frame EXCEPT !.sync.handlers = periodicCallbacks]
       /\ Goto("sync", "RunHandlers:863")
       /\ UNCHANGED stateVars
    \* call the copied handlers: those of failing return an error
    \/ /\ pc.sync = "RunHandlers:863"
       /\ LET f == frame.sync
          IN  \E failing \in SUBSET DOMAIN f.handlers :
                 IF RunHandlers(failing)
                 THEN SyncReturn([f EXCEPT !.inputs.failing = failing], TRUE)
                 ELSE /\ Goto("sync", "Agent.Services:429")
                      /\ frame' = [frame EXCEPT !.sync.handlers = EmptyMap]
                      /\ UNCHANGED last
       /\ UNCHANGED <<groupVars, registryVars, agentVars, loopVars, chanVars,
                      handlerVars, shutdown, countVars, outageVars, groupsLock, registryLock,
                   periodicLock, shutdownLock>>

\* queryAgentServices (426-434): the response to Agent().Services()
queryAgentServicesSteps ==
    \/ /\ pc.sync = "Agent.Services:429"
       /\ LET f == frame.sync
          IN  \E fails \in CallFails("Agent.Services:429") :
                 IF fails
                 THEN SyncReturn([f EXCEPT !.inputs.svcQueryFails = TRUE], TRUE)
                 ELSE /\ Goto("sync", "filterConsulServices:890")
                      /\ frame' = [frame EXCEPT !.sync.consul = agentServices]
                      /\ UNCHANGED last
       /\ UNCHANGED <<groupVars, registryVars, agentVars, loopVars, chanVars,
                      handlerVars, shutdown, countVars, outageVars, groupsLock, registryLock,
                   periodicLock, shutdownLock>>

\* filterConsulServices (888-901)
filterConsulServicesSteps ==
    \/ /\ pc.sync = "filterConsulServices:890"
       /\ RLock("sync", "registry", "filterConsulServices:892")
       /\ UNCHANGED <<stateVars, frame>>
    \* range c.servicesGroups under registryLock, and the deferred RUnlock; the
    \* runtime may end the program when SetServices inserts into that map
    \/ /\ pc.sync = "filterConsulServices:892"
       /\ \/ /\ Unlock("sync", "registry")
             /\ frame' = [frame EXCEPT !.sync.consul = filterConsulServices(@)]
             /\ Goto("sync", "calcServicesDiff:639")
             /\ UNCHANGED stateVars
          \/ /\ InsertsDomain(servicesGroups, frame.set.registeredServices)
             /\ Fatal

\* calcServicesDiff (637-686): the read of trackedServices
calcServicesDiffSteps ==
    \/ /\ pc.sync = "calcServicesDiff:639"
       /\ RLock("sync", "registry", "calcServicesDiff:641")
       /\ UNCHANGED <<stateVars, frame>>
    \/ /\ pc.sync = "calcServicesDiff:641"
       /\ Unlock("sync", "registry")
       /\ Goto("sync", "flattenedServices:354")
       /\ UNCHANGED <<stateVars, frame>>

\* flattenedServices (351-362), and the rest of calcServicesDiff
flattenedServicesSteps ==
    \/ /\ pc.sync = "flattenedServices:354"
       /\ RLock("sync", "groups", "flattenedServices:356")
       /\ UNCHANGED <<stateVars, frame>>
    \* flatten servicesGroups, the deferred RUnlock, and the merge of 646-684
    \/ /\ pc.sync = "flattenedServices:356"
       /\ Unlock("sync", "groups")
       /\ LET f == frame.sync
              diff == calcServicesDiff(f.consul)
          IN  SvcContinue([f EXCEPT !.consul = EmptyMap, !.missing = diff.missing,
                                    !.changed = diff.changed, !.stale = diff.stale])
       /\ UNCHANGED <<groupVars, registryVars, agentVars, loopVars, chanVars,
                      handlerVars, shutdown, countVars, outageVars>>

\* syncServices (690-723)
syncServicesSteps ==
    \* the response to ServiceRegister of a missing service
    \/ /\ pc.sync = "Agent.ServiceRegister:701"
       /\ LET f == frame.sync
          IN  \E fails \in CallFails("Agent.ServiceRegister:701") :
                 /\ agentServices' = IF fails THEN agentServices
                                     ELSE AgentServiceRegister(agentServices, f.cur)
                 /\ frame' = [frame EXCEPT
                                !.sync.err = @ \/ fails,
                                !.sync.calls.sreg = @ \cup {f.cur.ID},
                                !.sync.inputs.svcFails =
                                    IF fails THEN @ \cup {f.cur.ID} ELSE @]
       /\ Goto("sync", "syncServices:704")
       /\ UNCHANGED <<groupVars, registryVars, agentChecks, loopVars, chanVars,
                      handlerVars, shutdown, countVars, outageVars, groupsLock, registryLock,
                   periodicLock, shutdownLock, last>>
    \/ /\ pc.sync = "syncServices:704"
       /\ Lock("sync", "registry", "syncServices:705")
       /\ UNCHANGED <<stateVars, frame>>
    \/ /\ pc.sync = "syncServices:705"
       /\ Unlock("sync", "registry")
       /\ trackedServices' = (frame.sync.cur.ID :> frame.sync.cur) @@ trackedServices
       /\ SvcContinue(frame.sync)
       /\ UNCHANGED <<groupVars, trackedChecks, checkRunners, agentVars, loopVars,
                      chanVars, handlerVars, shutdown, countVars, outageVars>>
    \* the response to ServiceRegister of a changed service
    \/ /\ pc.sync = "Agent.ServiceRegister:710"
       /\ LET f == frame.sync
          IN  \E fails \in CallFails("Agent.ServiceRegister:710") :
                 /\ agentServices' = IF fails THEN agentServices
                                     ELSE AgentServiceRegister(agentServices, f.cur)
                 /\ SvcContinue([f EXCEPT
                                   !.err = @ \/ fails,
                                   !.calls.sreg = @ \cup {f.cur.ID},
                                   !.inputs.svcFails =
                                       IF fails THEN @ \cup {f.cur.ID} ELSE @])
       /\ UNCHANGED <<groupVars, registryVars, agentChecks, loopVars, chanVars,
                      handlerVars, shutdown, countVars, outageVars, groupsLock, registryLock,
                   periodicLock, shutdownLock>>
    \/ /\ pc.sync = "syncServices:718"
       /\ Lock("sync", "registry", "syncServices:719")
       /\ UNCHANGED <<stateVars, frame>>
    \/ /\ pc.sync = "syncServices:719"
       /\ Unlock("sync", "registry")
       /\ trackedServices' = Without(trackedServices, {frame.sync.cur.ID})
       /\ SvcContinue(frame.sync)
       /\ UNCHANGED <<groupVars, trackedChecks, checkRunners, agentVars, loopVars,
                      chanVars, handlerVars, shutdown, countVars, outageVars>>

\* deregisterService (794-797)
deregisterServiceSteps ==
    \* the response to deregisterService's ServiceDeregister
    \/ /\ pc.sync = "Agent.ServiceDeregister:796"
       /\ LET f == frame.sync
          IN  \E fails \in CallFails("Agent.ServiceDeregister:796") :
                 /\ agentServices' = IF fails THEN agentServices
                                     ELSE AgentServiceDeregister(agentServices, f.cur.ID)
                 /\ frame' = [frame EXCEPT
                                !.sync.err = @ \/ fails,
                                !.sync.calls.sdereg = @ \cup {f.cur.ID},
                                !.sync.inputs.svcFails =
                                    IF fails THEN @ \cup {f.cur.ID} ELSE @]
       /\ Goto("sync", "syncServices:718")
       /\ UNCHANGED <<groupVars, registryVars, agentChecks, loopVars, chanVars,
                      handlerVars, shutdown, countVars, outageVars, groupsLock, registryLock,
                   periodicLock, shutdownLock, last>>

\* queryChecks (417-424): the response to Agent().Checks()
queryChecksSteps ==
    \/ /\ pc.sync = "Agent.Checks:419"
       /\ LET f == frame.sync
          IN  \E fails \in CallFails("Agent.Checks:419") :
                 IF fails
                 THEN SyncReturn([f EXCEPT !.inputs.chkQueryFails = TRUE], TRUE)
                 ELSE /\ Goto("sync", "filterConsulChecks:907")
                      /\ frame' = [frame EXCEPT !.sync.consul = agentChecks]
                      /\ UNCHANGED last
       /\ UNCHANGED <<groupVars, registryVars, agentVars, loopVars, chanVars,
                      handlerVars, shutdown, countVars, outageVars, groupsLock, registryLock,
                   periodicLock, shutdownLock>>

\* filterConsulChecks (905-918)
filterConsulChecksSteps ==
    \/ /\ pc.sync = "filterConsulChecks:907"
       /\ RLock("sync", "registry", "filterConsulChecks:909")
       /\ UNCHANGED <<stateVars, frame>>
    \* range c.checkGroups under registryLock, and the deferred RUnlock; the
    \* runtime may end the program when SetServices inserts into that map
    \/ /\ pc.sync = "filterConsulChecks:909"
       /\ \/ /\ Unlock("sync", "registry")
             /\ frame' = [frame EXCEPT !.sync.consul = filterConsulChecks(@)]
             /\ Goto("sync", "calcChecksDiff:527")
             /\ UNCHANGED stateVars
          \/ /\ InsertsDomain(checkGroups, frame.set.registeredChecks)
             /\ Fatal

\* calcChecksDiff (526-576)
calcChecksDiffSteps ==
    \/ /\ pc.sync = "calcChecksDiff:527"
       /\ RLock("sync", "registry", "flattenedChecks:369")
       /\ UNCHANGED <<stateVars, frame>>
    \* RUnlock, and the merge of 534-571
    \/ /\ pc.sync = "calcChecksDiff:533"
       /\ Unlock("sync", "registry")
       /\ ChkContinue(frame.sync)
       /\ UNCHANGED <<groupVars, registryVars, agentVars, loopVars, chanVars,
                      handlerVars, shutdown, countVars, outageVars>>

\* flattenedChecks (366-377), called by calcChecksDiff at 528
flattenedChecksSteps ==
    \* called at 529, with registryLock read-locked
    \/ /\ pc.sync = "flattenedChecks:369"
       /\ RLock("sync", "groups", "flattenedChecks:370")
       /\ UNCHANGED <<stateVars, frame>>
    \* flatten checkGroups, RUnlock at 375, and the loop of 529-532
    \/ /\ pc.sync = "flattenedChecks:370"
       /\ Unlock("sync", "groups")
       /\ LET f == frame.sync
              diff == calcChecksDiff(f.consul)
          IN  frame' = [frame EXCEPT !.sync = [f EXCEPT !.consul = EmptyMap,
                                                        !.missing = diff.missing,
                                                        !.changed = diff.changed,
                                                        !.stale = diff.stale]]
       /\ Goto("sync", "calcChecksDiff:533")
       /\ UNCHANGED stateVars

\* registerCheck (725-733)
registerCheckSteps ==
    \/ /\ pc.sync = "registerCheck:727"
       /\ RLock("sync", "registry", "registerCheck:728")
       /\ UNCHANGED <<stateVars, frame>>
    \* cr.Start() if the check has a runner, RUnlock
    \/ /\ pc.sync = "registerCheck:728"
       /\ Unlock("sync", "registry")
       /\ LET id == frame.sync.cur.ID
          IN  checkRunners' = IF id \in DOMAIN checkRunners
                              THEN [checkRunners EXCEPT ![id] = RunnerStart(@)]
                              ELSE checkRunners
       /\ Goto("sync", "Agent.CheckRegister:732")
       /\ UNCHANGED <<groupVars, trackedServices, trackedChecks, agentVars, loopVars,
                      chanVars, handlerVars, shutdown, countVars, outageVars, frame,
                      last>>
    \* the response to CheckRegister
    \/ /\ pc.sync = "Agent.CheckRegister:732"
       /\ LET f == frame.sync
          IN  \E fails \in CallFails("Agent.CheckRegister:732") :
                 LET g == [f EXCEPT
                             !.err = @ \/ fails,
                             !.calls.creg = @ \cup {f.cur.ID},
                             !.calls.cregsvc = @ \cup {f.cur.ServiceID},
                             !.inputs.chkFails = IF fails THEN @ \cup {f.cur.ID} ELSE @]
                 IN  /\ agentChecks' = IF fails THEN agentChecks
                                       ELSE AgentCheckRegister(agentChecks, f.cur)
                     /\ IF f.kind = "missing"
                        THEN /\ Goto("sync", "syncChecks:450")
                             /\ frame' = [frame EXCEPT !.sync = g]
                             /\ UNCHANGED last
                        ELSE ChkContinue(g)
       /\ UNCHANGED <<groupVars, registryVars, agentServices, loopVars, chanVars,
                      handlerVars, shutdown, countVars, outageVars, groupsLock, registryLock,
                   periodicLock, shutdownLock>>

\* syncChecks (437-476)
syncChecksSteps ==
    \/ /\ pc.sync = "syncChecks:450"
       /\ Lock("sync", "registry", "syncChecks:451")
       /\ UNCHANGED <<stateVars, frame>>
    \/ /\ pc.sync = "syncChecks:451"
       /\ Unlock("sync", "registry")
       /\ trackedChecks' = (frame.sync.cur.ID :> frame.sync.cur) @@ trackedChecks
       /\ ChkContinue(frame.sync)
       /\ UNCHANGED <<groupVars, trackedServices, checkRunners, agentVars, loopVars,
                      chanVars, handlerVars, shutdown, countVars, outageVars>>
    \/ /\ pc.sync = "syncChecks:471"
       /\ Lock("sync", "registry", "syncChecks:472")
       /\ UNCHANGED <<stateVars, frame>>
    \/ /\ pc.sync = "syncChecks:472"
       /\ Unlock("sync", "registry")
       /\ trackedChecks' = Without(trackedChecks, {frame.sync.cur.ID})
       /\ ChkContinue(frame.sync)
       /\ UNCHANGED <<groupVars, trackedServices, checkRunners, agentVars, loopVars,
                      chanVars, handlerVars, shutdown, countVars, outageVars>>

\* deregisterCheck (800-818)
deregisterCheckSteps ==
    \/ /\ pc.sync = "deregisterCheck:801"
       /\ Lock("sync", "registry", "Agent.CheckDeregister:805")
       /\ UNCHANGED <<stateVars, frame>>
    \* the response to CheckDeregister, made with registryLock held; then either
    \* return err, or cr.Stop() and delete(c.checkRunners, id); the deferred
    \* Unlock
    \/ /\ pc.sync = "Agent.CheckDeregister:805"
       /\ Unlock("sync", "registry")
       /\ LET id == frame.sync.cur.ID
          IN  \E fails \in CallFails("Agent.CheckDeregister:805") :
                 /\ agentChecks' = IF fails THEN agentChecks
                                   ELSE AgentCheckDeregister(agentChecks, id)
                 /\ checkRunners' = IF fails THEN checkRunners
                                    ELSE Without(checkRunners, {id})
                 /\ frame' = [frame EXCEPT
                                !.sync.err = @ \/ fails,
                                !.sync.calls.cdereg = @ \cup {id},
                                !.sync.inputs.chkFails = IF fails THEN @ \cup {id} ELSE @]
       /\ Goto("sync", "syncChecks:471")
       /\ UNCHANGED <<groupVars, trackedServices, trackedChecks, agentServices,
                      loopVars, chanVars, handlerVars, shutdown, countVars,
                      outageVars, last>>

(***************************************************************************)
(* The goroutine that calls Shutdown, once.                                *)
(***************************************************************************)
\* the loop over trackedServices at 406-412
ShutAdvance(f) ==
    IF f.ids # {}
    THEN LET serviceID == CHOOSE i \in f.ids : TRUE
         IN  [label |-> "Agent.ServiceDeregister:408",
              f |-> [f EXCEPT !.cur = serviceID, !.ids = @ \ {serviceID}]]
    ELSE [label |-> "Shutdown:413", f |-> [f EXCEPT !.cur = <<>>]]

\* Shutdown (387-414)
ShutdownSteps ==
    \/ /\ pc.shut = "idle"
       /\ Goto("shut", "Shutdown:390")
       /\ UNCHANGED <<stateVars, groupsLock, registryLock, periodicLock,
                   shutdownLock, frame>>
    \/ /\ pc.shut = "Shutdown:390"
       /\ Lock("shut", "shutdown", "Shutdown:391")
       /\ UNCHANGED <<stateVars, frame>>
    \* set c.shutdown, Unlock, signalShutdown
    \/ /\ pc.shut = "Shutdown:391"
       /\ Unlock("shut", "shutdown")
       /\ shutdown' = TRUE
       /\ notifyShutdownCh' = signalShutdown(notifyShutdownCh)
       /\ Goto("shut", "Shutdown:399")
       /\ UNCHANGED <<groupVars, registryVars, agentVars, loopVars, handlerVars,
                      notifySyncCh, shutdownCh, countVars, outageVars, frame, last>>
    \/ /\ pc.shut = "Shutdown:399"
       /\ RLock("shut", "registry", "Shutdown:401")
       /\ UNCHANGED <<stateVars, frame>>
    \* stop every runner, and start the loop over trackedServices
    \/ /\ pc.shut = "Shutdown:401"
       /\ checkRunners' = StopAll(checkRunners)
       /\ LET n == ShutAdvance([NoFrame.shut EXCEPT !.ids = DOMAIN trackedServices])
          IN  /\ Goto("shut", n.label)
              /\ frame' = [frame EXCEPT !.shut = n.f]
       /\ UNCHANGED <<groupVars, trackedServices, trackedChecks, agentVars, loopVars,
                      chanVars, handlerVars, shutdown, countVars, outageVars, groupsLock, registryLock,
                   periodicLock, shutdownLock, last>>
    \* the response to ServiceDeregister, made with registryLock read-locked
    \/ /\ pc.shut = "Agent.ServiceDeregister:408"
       /\ LET f == frame.shut
          IN  \E fails \in CallFails("Agent.ServiceDeregister:408") :
                 LET n == ShutAdvance([f EXCEPT !.err = @ \/ fails,
                                                !.sdereg = @ \cup {f.cur}])
                 IN  /\ agentServices' = IF fails THEN agentServices
                                         ELSE AgentServiceDeregister(agentServices, f.cur)
                     /\ Goto("shut", n.label)
                     /\ frame' = [frame EXCEPT !.shut = n.f]
       /\ UNCHANGED <<groupVars, registryVars, agentChecks, loopVars, chanVars,
                      handlerVars, shutdown, countVars, outageVars, groupsLock, registryLock,
                   periodicLock, shutdownLock, last>>
    \* return mErr.ErrorOrNil(), and the deferred RUnlock
    \/ /\ pc.shut = "Shutdown:413"
       /\ Unlock("shut", "registry")
       /\ last' = Last("Shutdown", <<>>, EmptyMap, frame.shut.err,
                       [NoCalls EXCEPT !.sdereg = frame.shut.sdereg])
       /\ Goto("shut", "done")
       /\ frame' = [frame EXCEPT !.shut = NoFrame.shut]
       /\ UNCHANGED <<groupVars, registryVars, agentVars, loopVars, chanVars,
                      handlerVars, shutdown, countVars, outageVars>>

(***************************************************************************)
(* The goroutine of a started check runner.                                *)
(***************************************************************************)
\* runCheck (927-953)
runCheckSteps ==
    \* check.Run() of a started runner, then the UpdateTTL request
    \/ /\ pc.check = "idle"
       /\ \E id \in DOMAIN checkRunners :
             /\ checkRunners[id] = "started"
             /\ frame' = [frame EXCEPT !.check = id]
       /\ Goto("check", "Agent.UpdateTTL:946")
       /\ UNCHANGED <<stateVars, groupsLock, registryLock, periodicLock,
                      shutdownLock>>
    \* the response to UpdateTTL: an error flips consulAvailable
    \/ /\ pc.check = "Agent.UpdateTTL:946"
       /\ \E fails \in CallFails("Agent.UpdateTTL:946") :
             consulAvailable' = IF fails THEN ~consulAvailable ELSE consulAvailable
       /\ Goto("check", "idle")
       /\ frame' = [frame EXCEPT !.check = <<>>]
       /\ UNCHANGED <<groupVars, registryVars, agentVars, run, timer, chanVars,
                      handlerVars, shutdown, countVars, outageVars, groupsLock, registryLock,
                   periodicLock, shutdownLock, last>>

(***************************************************************************)
(* LockSpec.                                                               *)
(***************************************************************************)
\* the map the producer gives to SetServices
LockServiceInputs ==
    { (KeyA :> Svc("http", <<ScriptCheck, HTTPCheck>>)) @@ (KeyB :> Svc("http", <<>>)) }

SetStep ==
    \/ \E services \in LockServiceInputs : SetServicesCall(ClientDomain, services)
    \/ createServiceSteps
    \/ SetServicesSteps

\* SyncServices (872-884) and the functions it calls
SyncStep ==
    \/ /\ pc.sync = "idle"
       /\ Goto("sync", "RunHandlers:855")
       /\ UNCHANGED <<stateVars, groupsLock, registryLock, periodicLock,
                      shutdownLock, frame>>
    \/ RunHandlersSteps
    \/ queryAgentServicesSteps
    \/ filterConsulServicesSteps
    \/ calcServicesDiffSteps
    \/ flattenedServicesSteps
    \/ syncServicesSteps
    \/ deregisterServiceSteps
    \/ queryChecksSteps
    \/ filterConsulChecksSteps
    \/ calcChecksDiffSteps
    \/ flattenedChecksSteps
    \/ registerCheckSteps
    \/ syncChecksSteps
    \/ deregisterCheckSteps

LockNext == SetStep \/ SyncStep \/ ShutdownSteps \/ runCheckSteps

\* NewSyncer, and the agent as an earlier incarnation left it: a service and
\* a check that differ from the desired ones, and a service and a check nobody
\* desires
LockInit ==
    /\ InitWith({[services |-> ByID({AgentSvc(ClientA, 4647, FALSE),
                                     AgentSvc(ClientGhost, 80, FALSE)}),
                  checks |-> ByCheckID({AgentChk(HTTPCheck, ClientA, "edited"),
                                        AgentChk(OldCheck, ClientA, "")})]})
    /\ last = Last("NewSyncer", <<>>, EmptyMap, FALSE, NoCalls)

LockSpec == LockInit /\ [][LockNext]_vars

(***************************************************************************)
(* Properties.                                                             *)
(***************************************************************************)
SyncedOK == last.op = "SyncServices" /\ ~last.err
SetOK == last.op = "SetServices" /\ ~last.err

DesiredServiceIDs == {r.ID : r \in flattenedServices}
DesiredCheckIDs == {r.ID : r \in flattenedChecks}

\* "_nomad-{domain}-"
DomainPrefix(domain) == nomadServicePrefix \o <<"-">> \o domain \o <<"-">>

\* a check the syncer runs itself
Delegated(chkReg) == chkReg.ID.type \in delegateChecks

\* the agent's services of the domains that have desired services, and its
\* checks on services of the domains that have desired checks
OwnedAgentServices ==
    {id \in DOMAIN agentServices :
        \E d \in DOMAIN servicesGroups : HasPrefix(id, DomainPrefix(d))}
OwnedAgentChecks ==
    {id \in DOMAIN agentChecks :
        \E d \in DOMAIN checkGroups :
            HasPrefix(agentChecks[id].ServiceID, DomainPrefix(d))}

\* every "_nomad"-prefixed service of the agent, and the checks on them
NomadAgentServices ==
    {id \in DOMAIN agentServices : HasPrefix(id, nomadServicePrefix)}
NomadAgentChecks ==
    {id \in DOMAIN agentChecks :
        HasPrefix(agentChecks[id].ServiceID, nomadServicePrefix)}

DesiredAtAgent ==
    /\ \A r \in flattenedServices :
          /\ r.ID \in DOMAIN agentServices
          /\ compareConsulService(r, agentServices[r.ID])
    /\ \A c \in flattenedChecks :
          /\ c.ID \in DOMAIN agentChecks
          /\ compareConsulCheck(c, agentChecks[c.ID])

Converged ==
    /\ DesiredAtAgent
    /\ OwnedAgentServices = DesiredServiceIDs
    /\ OwnedAgentChecks = DesiredCheckIDs

GroupOf(groups, domain) ==
    IF domain \in DOMAIN groups THEN groups[domain] ELSE EmptyMap

\* C2: after SetServices(d, S) returns no error, the desired services of d
\* are exactly those built from S, and every other domain is as it was.
C2_ReplaceSemantics ==
    [][(last'.op = "SetServices" /\ ~last'.err) =>
        LET d == last'.domain
            S == last'.services
        IN  /\ GroupOf(servicesGroups', d) =
                  [k \in DOMAIN S |-> createService(S[k], d, k)]
            /\ DOMAIN GroupOf(checkGroups', d) \subseteq DOMAIN S
            /\ \A e \in Domains \ {d} :
                  /\ GroupOf(servicesGroups', e) = GroupOf(servicesGroups, e)
                  /\ GroupOf(checkGroups', e) = GroupOf(checkGroups, e)]_vars

\* C3: when SetServices has returned no error, an immediate-sync
\* notification is pending on notifySyncCh.
C3_NotificationPending == SetOK => CanRecv(notifySyncCh)

\* C4: a SyncServices made right after one that returned no error issues no
\* ServiceRegister, ServiceDeregister, CheckRegister or CheckDeregister.
C4_SecondSyncIssuesNothing ==
    [][(SyncedOK /\ last'.op = "SyncServices") => last'.calls = NoCalls]_vars

\* C4 witness: a sync that issued no call while services and checks are
\* desired and an earlier sync has registered them
C4_Witness ==
    /\ SyncedOK /\ last.calls = NoCalls
    /\ DesiredServiceIDs # {} /\ DesiredCheckIDs # {}
    /\ DOMAIN trackedServices # {} /\ DOMAIN trackedChecks # {}

\* C5: every ID given to ServiceRegister, and the ServiceID of every check
\* given to CheckRegister, starts with "_nomad-{d}-" for a domain d that
\* SetServices has stored.
C5_PrefixInvariant ==
    \A id \in last.calls.sreg \cup last.calls.cregsvc :
        \E d \in DOMAIN servicesGroups : HasPrefix(id, DomainPrefix(d))

\* C5 witness: a sync that registered a service and a check
C5_Witness ==
    /\ last.op = "SyncServices"
    /\ last.calls.sreg # {} /\ last.calls.cregsvc # {}

\* C6: after a sync that returned no error, every desired delegated check
\* has a runner that has been started, and no runner is left in the table
\* for a check that was desired and no longer is.
C6_RunnerLifecycle ==
    SyncedOK =>
        /\ \A c \in flattenedChecks : Delegated(c) =>
              /\ c.ID \in DOMAIN checkRunners
              /\ checkRunners[c.ID] # "created"
        /\ \A id \in everDesired \ DesiredCheckIDs : id \notin DOMAIN checkRunners

\* C7: after SetServices has returned and after a sync has completed, the
\* runner table holds a runner for exactly the desired delegated checks.
C7_RunnerIffDesired ==
    last.op \in {"SetServices", "SyncServices"} =>
        DOMAIN checkRunners = {c.ID : c \in {x \in flattenedChecks : Delegated(x)}}

\* C8: at most one immediate-sync notification is pending, SyncNow can
\* always be called, and the loop takes its notify branch at most once for
\* a burst of SyncNow calls.
C8_SignalCoalescing ==
    /\ notifySyncCh.len <= 1
    /\ notified <= 1
    /\ burst < MaxBurst => ENABLED SyncNow

\* C8 witness: two SyncNow calls in a row while Run is running
C8_Witness ==
    /\ run = "running"
    /\ burst >= 2
    /\ last.op = "SyncNow"

\* C9: AddPeriodicHandler of a name that is installed returns false and
\* leaves the handler table as it is; of a free name it returns true and
\* installs the handler, leaving the others; NumHandlers counts the table.
C9_DuplicateHandlerRejected ==
    [][/\ last'.op = "AddPeriodicHandler" =>
            IF last'.name \in DOMAIN periodicCallbacks
            THEN /\ last'.ret = FALSE
                 /\ periodicCallbacks' = periodicCallbacks
            ELSE /\ last'.ret = TRUE
                 /\ DOMAIN periodicCallbacks' = DOMAIN periodicCallbacks \cup {last'.name}
                 /\ \A n \in DOMAIN periodicCallbacks :
                       periodicCallbacks'[n] = periodicCallbacks[n]
       /\ last'.op = "NumHandlers" =>
            last'.n = Cardinality(DOMAIN periodicCallbacks)]_vars

\* C9 witness: a second AddPeriodicHandler of an installed name returned
\* false
C9_Witness ==
    /\ last.op = "AddPeriodicHandler"
    /\ last.ret = FALSE
    /\ last.name \in DOMAIN periodicCallbacks

\* C10: once Shutdown has been called, or shutdownCh closed, while Run is
\* running, Run eventually stops its timer and returns.
C10_RunReturns ==
    (run = "running" /\ (shutdown \/ shutdownCh = "closed"))
        ~> (run = "returned" /\ timer = "stopped")

\* C11: the first Shutdown call stops every runner of the table and gives
\* every tracked service to ServiceDeregister; a later Shutdown call, a
\* producer's or the loop's, stops no runner and makes no agent call.
C11_ShutdownOneShot ==
    [][(last'.op = "Shutdown" /\ last' # last) =>
          IF ~shutdown
          THEN /\ last'.calls.sdereg = DOMAIN trackedServices
               /\ \A id \in DOMAIN checkRunners : checkRunners'[id] # "started"
          ELSE /\ last'.calls = NoCalls
               /\ checkRunners' = checkRunners]_vars

\* C12: when SetServices(d, S) returns an error, the desired state of d
\* holds every service of S, and every check of S that createCheckReg
\* accepted.
C12_ErrorStillApplies ==
    [][(last'.op = "SetServices" /\ last'.err /\ nSet' # nSet) =>
          LET d == last'.domain
              S == last'.services
          IN  \A k \in DOMAIN S :
                LET serviceReg == createService(S[k], d, k)
                IN  /\ k \in DOMAIN GroupOf(servicesGroups', d)
                    /\ GroupOf(servicesGroups', d)[k] = serviceReg
                    /\ \A i \in 1..Len(S[k].Checks) :
                          ~createCheckRegErr(S[k].Checks[i]) =>
                            /\ k \in DOMAIN GroupOf(checkGroups', d)
                            /\ createCheckReg(S[k].Checks[i], serviceReg)
                                  \in SeqRange(GroupOf(checkGroups', d)[k])]_vars

\* the IDs whose ServiceRegister, ServiceDeregister, CheckRegister or
\* CheckDeregister call of the last sync returned no error
RegisteredOK(l) == l.calls.sreg \ l.inputs.svcFails
DeregisteredOK(l) == l.calls.sdereg \ l.inputs.svcFails
CheckRegisteredOK(l) == l.calls.creg \ l.inputs.chkFails
CheckDeregisteredOK(l) == l.calls.cdereg \ l.inputs.chkFails

\* C13: a sync adds an ID to trackedServices or trackedChecks only when its
\* register call succeeded, and removes one only when its deregister call
\* succeeded.
C13_TrackedAfterSuccess ==
    [][last'.op = "SyncServices" =>
          /\ DOMAIN trackedServices' \ DOMAIN trackedServices \subseteq RegisteredOK(last')
          /\ DOMAIN trackedServices \ DOMAIN trackedServices' \subseteq DeregisteredOK(last')
          /\ DOMAIN trackedChecks' \ DOMAIN trackedChecks \subseteq CheckRegisteredOK(last')
          /\ DOMAIN trackedChecks \ DOMAIN trackedChecks' \subseteq CheckDeregisteredOK(last')]_vars

C16_SyncContinuesPastHandlers ==
    [][(last'.op = "SyncServices" /\ last'.inputs.failing # {}) =>
          /\ last'.err
          /\ last'.calls.sreg \cup last'.calls.sdereg = CallIDs
          /\ last'.calls.creg \cup last'.calls.cdereg = CheckCallIDs]_vars

\* the agent's checks on services of the domains that have desired services
ChecksOfOwnedServices ==
    {id \in DOMAIN agentChecks :
        \E d \in DOMAIN servicesGroups :
            HasPrefix(agentChecks[id].ServiceID, DomainPrefix(d))}

\* C17: a sync considers the agent's services whose ID starts with
\* "_nomad-{d}-" for a domain d of the desired state and the checks on such
\* services, no other record, and deregisters no other record.
C17_OwnershipFilter ==
    [][last'.op = "SyncServices" =>
          /\ DOMAIN filterConsulServices(agentServices) = OwnedAgentServices
          /\ DOMAIN filterConsulChecks(agentChecks) = ChecksOfOwnedServices
          /\ last'.calls.sdereg \subseteq OwnedAgentServices
          /\ last'.calls.cdereg \subseteq ChecksOfOwnedServices]_vars

Copies(tags, tag) == Cardinality({i \in 1..Len(tags) : tags[i] = tag})

\* C20: compareConsulService reports equal iff ID, name, port, address and
\* EnableTagOverride are the same and every tag has as many copies in the
\* registration's tag list as in the agent record's.
C20_TagMultisets ==
    last.op = "compareConsulService" =>
        LET localService == last.args[1]
            consulService == last.args[2]
        IN  last.ret <=>
              /\ consulService.ID = localService.ID
              /\ consulService.Service = localService.Name
              /\ consulService.Port = localService.Port
              /\ consulService.Address = localService.Address
              /\ consulService.EnableTagOverride = localService.EnableTagOverride
              /\ \A tag \in {"t", "u"} :
                    Copies(localService.Tags, tag) = Copies(consulService.Tags, tag)

\* C14: from the tick at which the agent goes down to the first successful
\* sync after it is back, Run logs the failure once and the recovery once,
\* whatever the runners' TTL updates do meanwhile.
C14_TransitionsLoggedOnce ==
    /\ failureLogs <= 1
    /\ recoveryLogs <= 1
    /\ (outage = "over" /\ SyncedOK) => (failureLogs = 1 /\ recoveryLogs = 1)

\* the IDs of a set of registrations
IDsOf(regs) == {r.ID : r \in regs}

\* the four slices hold every ID of L and A once: missing the IDs only L
\* has, stale those only A has, equal and changed the common ones by equal
PartitionOf(diff, L, A, equal(_)) ==
    /\ IDsOf(diff.missing) = L \ A
    /\ IDsOf(diff.stale) = A \ L
    /\ IDsOf(diff.equal) = {id \in L \cap A : equal(id)}
    /\ IDsOf(diff.changed) = {id \in L \cap A : ~equal(id)}
    /\ \A part \in {diff.missing, diff.equal, diff.changed, diff.stale} :
          Cardinality(part) = Cardinality(IDsOf(part))

C25_TrackedMatchesAgent ==
    SyncedOK =>
        \A id \in DOMAIN trackedServices :
            /\ id \in DOMAIN agentServices
            /\ compareConsulService(trackedServices[id], agentServices[id])

\* C26: after a SyncServices that returned no error, the IDs of
\* trackedServices are the IDs of the flattened desired services, also when
\* the agent held a record of one before the first sync.
C26_TrackedIsDesired ==
    SyncedOK => DOMAIN trackedServices = DesiredServiceIDs

\* C27: a SetServices(d, S) made right after a SetServices(d, S) that
\* returned no error, S holding a delegated check whose runner exists, leaves
\* the desired checks of d as the first call left them.
C27_SetServicesIdempotent ==
    [][(/\ SetOK
        /\ last'.op = "SetServices" /\ nSet' # nSet
        /\ last'.domain = last.domain /\ last'.services = last.services
        /\ \E c \in flattenedChecks :
              /\ Delegated(c)
              /\ HasPrefix(c.ServiceID, DomainPrefix(last.domain))
              /\ c.ID \in DOMAIN checkRunners)
          => /\ ~last'.err
             /\ GroupOf(checkGroups', last.domain) = GroupOf(checkGroups, last.domain)
             /\ GroupOf(servicesGroups', last.domain) = GroupOf(servicesGroups, last.domain)]_vars

\* the runners a step starts
StartedBy ==
    {id \in DOMAIN checkRunners' :
        /\ checkRunners'[id] = "started"
        /\ id \in DOMAIN checkRunners => checkRunners[id] # "started"}

\* C28: once a Shutdown call has returned, no ServiceRegister and no
\* CheckRegister call is made and no runner is started, whatever Run's timer
\* and the owner of shutdownCh do.
C28_QuietAfterShutdown ==
    [][shutdown =>
          /\ (last' # last => last'.calls.sreg = {} /\ last'.calls.creg = {})
          /\ StartedBy = {}]_vars

\* the goroutines in a call, and those that can take a step
InCall(t) == pc[t] \notin {"idle", "done", "fatal"}

Runnable(t) ==
    \/ t = "set" /\ ENABLED SetStep
    \/ t = "sync" /\ ENABLED SyncStep
    \/ t = "shut" /\ ENABLED ShutdownSteps
    \/ t = "check" /\ ENABLED runCheckSteps

\* the goroutines in a call do not all wait for a lock
NoDeadlock ==
    (\E t \in Tasks : InCall(t)) => \E t \in Tasks : InCall(t) /\ Runnable(t)

\* C22: no goroutine takes groupsLock while it holds registryLock, none
\* holds periodicLock together with another lock, and the goroutines that
\* are in SetServices, SyncServices, Shutdown and runCheck never all wait
\* for a lock.
C22_LockOrdering ==
    /\ [](\A t \in Tasks : "periodic" \in Holds(t) => Holds(t) = {"periodic"})
    /\ []NoDeadlock
    /\ [][\A t \in Tasks :
            (t \in groupsLock'.r \/ groupsLock'.w = t) /\ "groups" \notin Holds(t)
                => "registry" \notin Holds(t)]_vars

\* the labels at which a request to the agent is in flight
AgentCalls ==
    {"Agent.Services:429", "Agent.ServiceRegister:701", "Agent.ServiceRegister:710",
     "Agent.ServiceDeregister:796", "Agent.Checks:419", "Agent.CheckRegister:732",
     "Agent.CheckDeregister:805", "Agent.ServiceDeregister:408",
     "Agent.UpdateTTL:946"}

InFlight(t) == pc[t] \in AgentCalls

\* C23: a goroutine that has a request to the agent in flight holds none of
\* groupsLock, registryLock and periodicLock, and the producer's SetServices
\* never waits for a lock that such a goroutine holds.
C23_NoLockAcrossCall ==
    /\ \A t \in Tasks :
          InFlight(t) => Holds(t) \cap {"groups", "registry", "periodic"} = {}
    /\ ~ /\ InCall("set") /\ ~Runnable("set")
         /\ \E t \in Tasks : InFlight(t) /\ Holds(t) # {}

\* the labels at which a goroutine reads servicesGroups or checkGroups, and
\* the one at which it writes them
GroupsReads ==
    {"filterConsulServices:892", "filterConsulChecks:909",
     "flattenedServices:356", "flattenedChecks:370"}
GroupsWrites == {"SetServices:316"}

\* C24: a goroutine that reads servicesGroups or checkGroups holds
\* groupsLock, one that writes them holds it as writer, and SetServices
\* never writes them while a sync reads them without groupsLock.
C24_GroupsLockGuards ==
    /\ \A t \in Tasks :
          /\ pc[t] \in GroupsReads => "groups" \in Holds(t)
          /\ pc[t] \in GroupsWrites => groupsLock.w = t
    /\ ~ /\ pc.set \in GroupsWrites
         /\ pc.sync \in GroupsReads /\ "groups" \notin Holds("sync")

====
